---------------------------- MODULE Spec2Model ----------------------------
(***************************************************************************)
(* Model of the Ftotnem/Backend game service cluster:                      *)
(*   - the membership registrar   (go/shared/cluster/membership.go)        *)
(*   - the tick partitioner       (go/game/updater.go)                     *)
(*   - the liveness-store client  (game service redis client)              *)
(*   - the online / offline handlers (go/game/handler.go)                  *)
(*                                                                         *)
(* Numbers stored in the liveness store (play time totals and deltas) are  *)
(* modelled as exact integers; times are whole seconds.                    *)
(***************************************************************************)
EXTENDS Integers, Sequences, FiniteSets, TLC

VARIABLES
    now,        \* wall clock, in seconds (time.Now())
    registry,   \* the hash service_registry:game-service : field -> stored value
    srState,    \* per instance: life cycle of its ServiceRegistrar / process
    srConfig,   \* per instance: ServiceRegistrar.config after defaults
    reqConfig,  \* per instance: the ServiceConfig last passed to NewServiceRegistrar
    clSnap,     \* per instance: cleanupLoop's HGetAll result while a pass is in flight
    hbDue,      \* per instance: next firing time of the heartbeat ticker
    clDue,      \* per instance: next firing time of the cleanup ticker
    chDue,      \* per instance: next firing time of the ring-refresh ticker
    guState,    \* per instance: life cycle of its GameUpdater loops
    ring,       \* per instance: GameUpdater.consistentHash
    chMux,      \* per instance: GameUpdater.chMux, its writer and its readers
    refresh,    \* per instance: the updateConsistentHashRing call in flight
    tick,       \* per instance: the performGameTick call in flight
    scan,       \* the GetAllOnlineUUIDs call in flight: its result and its callbacks
    online,     \* players whose online:{uuid}: marker is present
    playtime,   \* per player: the playtime:{uuid}: key
    deltatime,  \* per player: the deltatime:{uuid}: key
    teamKey,    \* per player: the team:{uuid}: key ("" when missing)
    teamTotal,  \* per team: the team_total_playtime:{team}: key
    profile,    \* per player: the durable player record of the player service
    durTeam,    \* per team: the durable team total of the player service
    req,        \* per request slot: the HandleOnline / HandleOffline call in flight
    syncer,     \* per instance: the PlaytimeSyncer cycle in flight
    base,       \* per player: the cached total as a handler last wrote it
    nticks,     \* per player: accrual calls completed since base was taken
    lost,       \* per player: an accrual call hit a store failure since base was taken
    stopLog     \* per instance: what Stop did on its registrar: the HDel commands
                \* issued and the calls that found isStopped set

regVars  == <<registry, srState, srConfig, reqConfig, clSnap>>
timeVars == <<hbDue, clDue, chDue>>
lockVars == <<chMux, refresh, tick, scan>>
guVars   == <<guState, ring, lockVars>>
cacheVars == <<online, playtime, deltatime, teamKey, teamTotal>>
svcVars  == <<profile, durTeam, req, syncer>>
histVars == <<base, nticks, lost, stopLog>>

-----------------------------------------------------------------------------
(* Bounds of the model *)

\* replicas per ring member (the ring library's NumberOfReplicas, scaled down)
NumberOfReplicas == 2

\* last clock value of the ring specification
MaxTimeRing == 16

\* last clock value of the registry specification
MaxTimeReg == 17

\* the timed registry specification: last clock value, and the last clock
\* values at which an instance registers or crashes
MaxTimeLive == 52
MaxRegTime == 2
MaxCrashTime == 6

\* a tick runs only while every cached total is below this: in the ring
\* specification, and in the handler specification
MaxPlaytime == 2
MaxPlaytimeCache == 3

\* the repeated-Stop specification: last clock value, and the calls of Stop
\* made on one registrar after the first
MaxTimeStop == 3
MaxStopCalls == 2

-----------------------------------------------------------------------------
(* Program constants *)

DefaultHeartbeatInterval == 5
DefaultServiceTimeout == 15
DefaultCleanupInterval == 30

\* the ServiceConfig main() passes to NewServiceRegistrar
MainConfig ==
    [hb |-> DefaultHeartbeatInterval, ttl |-> DefaultServiceTimeout,
     cl |-> DefaultCleanupInterval]

\* instance ids (uuid.New().String() in main) of the processes of the cluster
Inst == {"i1", "i2"}

\* the ids a ring is built from in the ring-construction specification
RingElts == {"i1", "i2", "i3", "i4"}

\* a registry field that no instance of the cluster writes
Junk == "junk"
Keys == Inst \cup {Junk}

\* player uuids and the team names CreateProfile assigns
Players == {"p1", "p2"}
Teams == {"AQUA_CREEPERS", "PURPLE_SWORDERS"}

-----------------------------------------------------------------------------
(* The consistent hash ring as GameUpdater uses it: consistent.New(), Add,   *)
(* Members and Get.  A ring is its circle (hash point -> member) and its     *)
(* member set.  The hash is a fixed injective placement of the replica keys  *)
(* of the members on a circle of 31 points.                                  *)

InstIdx(m) == CASE m = "i1" -> 1 [] m = "i2" -> 2 [] m = "i3" -> 3 [] m = "i4" -> 4

\* hashKey(eltKey(elt, idx)) for idx = 0 .. NumberOfReplicas-1
EltPoints_Colliding(elt) ==
    {(idx * 3 + InstIdx(elt)) % 5 : idx \in 0..(NumberOfReplicas - 1)}

EltPoints(elt) ==
    {((idx * 4 + InstIdx(elt)) * 7) % 31 : idx \in 0..(NumberOfReplicas - 1)}

RingNew == [circle |-> {}, members |-> {}]

\* Consistent.Add: circle[hashKey(eltKey(elt, i))] = elt for every replica
RingAdd(r, elt) ==
    [circle  |-> {e \in r.circle : e[1] \notin EltPoints(elt)}
                    \cup {<<pt, elt>> : pt \in EltPoints(elt)},
     members |-> r.members \cup {elt}]

RingMembers(r) == r.members

MinOf(S) == CHOOSE x \in S : \A y \in S : x <= y

\* Consistent.Get: the member at the first circle point above the key's hash,
\* wrapping to the smallest point; "" with ErrEmptyCircle on an empty circle
RingGetAt(r, key) ==
    IF r.circle = {} THEN ""
    ELSE LET pts   == {e[1] : e \in r.circle}
             above == {pt \in pts : pt > key}
             at    == IF above = {} THEN MinOf(pts) ELSE MinOf(above)
         IN  (CHOOSE e \in r.circle : e[1] = at)[2]

RECURSIVE RingAddAll(_, _)
RingAddAll(r, order) ==
    IF order = <<>> THEN r
    ELSE RingAddAll(RingAdd(r, Head(order)), Tail(order))

\* every order in which `for id := range activeServices` may visit a set
Orders(S) ==
    {o \in [1..Cardinality(S) -> S] : \A a, b \in 1..Cardinality(S) : a # b => o[a] # o[b]}

\* hashKey(uuid) of a player
PlayerIdx(p) == CASE p = "p1" -> 1 [] p = "p2" -> 2
PlayerPoint(p) == (PlayerIdx(p) * 7 + 5) % 31
RingGet(r, p) == RingGetAt(r, PlayerPoint(p))

RECURSIVE SumFn(_, _)
SumFn(f, S) ==
    IF S = {} THEN 0
    ELSE LET x == CHOOSE x \in S : TRUE IN f[x] + SumFn(f, S \ {x})

-----------------------------------------------------------------------------
(* Stored values *)

\* a registry field: json.Marshal(ServiceInfo) keeps LastSeen; anything that
\* json.Unmarshal rejects is "garbage"
Absent     == [kind |-> "absent", lastSeen |-> 0]
InfoJSON(t) == [kind |-> "json", lastSeen |-> t]
Garbage    == [kind |-> "garbage", lastSeen |-> 0]
Unmarshals(v) == v.kind = "json"

\* a numeric cache key: present with a value, or missing (redis.Nil)
Missing == [has |-> FALSE, val |-> 0]
Val(v)  == [has |-> TRUE, val |-> v]

-----------------------------------------------------------------------------
(* Membership registrar: go/shared/cluster/membership.go *)

\* config.HeartbeatInterval / HeartbeatTTL / CleanupInterval after the zero
\* values are replaced by the defaults
WithDefaults(c) ==
    [type |-> c.type,
     hb   |-> IF c.hb = 0 THEN DefaultHeartbeatInterval ELSE c.hb,
     ttl  |-> IF c.ttl = 0 THEN DefaultServiceTimeout ELSE c.ttl,
     cl   |-> IF c.cl = 0 THEN DefaultCleanupInterval ELSE c.cl]

\* the checks NewServiceRegistrar makes before it returns a handle
ConfigAccepted_Strict(c) ==
    /\ c.type # ""
    /\ ~(WithDefaults(c).ttl < WithDefaults(c).hb)

ConfigAccepted(c) ==
    /\ c.type # ""
    /\ ~(WithDefaults(c).ttl <= WithDefaults(c).hb)

NoConfig == [type |-> "", hb |-> 0, ttl |-> 0, cl |-> 0]

\* the ServiceConfig main() builds
MainServiceConfig ==
    [type |-> "game-service", hb |-> MainConfig.hb, ttl |-> MainConfig.ttl,
     cl |-> MainConfig.cl]

\* NewServiceRegistrar(redisClient, config): a handle, or an error and nothing else
NewServiceRegistrar(i, c) ==
    /\ srState[i] = "none"
    /\ reqConfig' = [reqConfig EXCEPT ![i] = c]
    /\ IF ConfigAccepted(c)
       THEN /\ srState' = [srState EXCEPT ![i] = "created"]
            /\ srConfig' = [srConfig EXCEPT ![i] = WithDefaults(c)]
       ELSE /\ srState' = [srState EXCEPT ![i] = "invalid"]
            /\ UNCHANGED srConfig
    /\ UNCHANGED <<now, registry, clSnap, timeVars, guVars, cacheVars, svcVars, histVars>>

\* sendHeartbeat: HSet of this instance's own field with LastSeen = time.Now();
\* ok = FALSE is a failed HSet, which writes nothing
sendHeartbeat_Skipped(i, ok) == registry

sendHeartbeat_Shared(i, ok) ==
    IF ok THEN [registry EXCEPT !["i1"] = InfoJSON(now)] ELSE registry

sendHeartbeat(i, ok) ==
    IF ok THEN [registry EXCEPT ![i] = InfoJSON(now)] ELSE registry

\* Register: one synchronous heartbeat, then the two loops are started
RegisterCore(i, ok) ==
    /\ srState[i] = "created"
    /\ registry' = sendHeartbeat(i, ok)
    /\ srState' = [srState EXCEPT ![i] = IF ok THEN "running" ELSE "regfailed"]
    /\ UNCHANGED <<now, srConfig, reqConfig, clSnap, guVars, cacheVars, svcVars, histVars>>

Register(i, ok) == RegisterCore(i, ok) /\ UNCHANGED timeVars

\* heartbeatLoop: one firing of the heartbeat ticker
heartbeatCore_Uncancelled(i, ok) ==
    /\ srState[i] \in {"running", "stopping", "stopped"}
    /\ registry' = sendHeartbeat(i, ok)
    /\ UNCHANGED <<now, srState, srConfig, reqConfig, clSnap, guVars, cacheVars, svcVars, histVars>>

heartbeatCore_Fatal(i, ok) ==
    /\ srState[i] = "running"
    /\ registry' = sendHeartbeat(i, ok)
    /\ srState' = [srState EXCEPT ![i] = IF ok THEN "running" ELSE "regfailed"]
    /\ UNCHANGED <<now, srConfig, reqConfig, clSnap, guVars, cacheVars, svcVars, histVars>>

heartbeatCore(i, ok) ==
    /\ srState[i] = "running"
    /\ registry' = sendHeartbeat(i, ok)
    /\ UNCHANGED <<now, srState, srConfig, reqConfig, clSnap, guVars, cacheVars, svcVars, histVars>>

heartbeatLoop(i, ok) == heartbeatCore(i, ok) /\ UNCHANGED timeVars

\* the test cleanupLoop applies to a field it could unmarshal
IsStale_Never(t, lastSeen, ttl) == FALSE

IsStale_AtTTL(t, lastSeen, ttl) == t - lastSeen >= ttl

IsStale(t, lastSeen, ttl) == t - lastSeen > ttl

\* staleIDs of one cleanup pass over the HGetAll result `results` read at time t
StaleIDs(results, t, ttl) ==
    {id \in Keys :
        /\ results[id].kind # "absent"
        /\ \/ ~Unmarshals(results[id])
           \/ IsStale(t, results[id].lastSeen, ttl)}

\* cleanupLoop, first half of a pass: HGetAll and the scan for stale ids;
\* a failed HGetAll ends the pass, an empty staleIDs issues no HDel
cleanupReadCore(i, ok) ==
    /\ srState[i] = "running"
    /\ clSnap[i] = {}
    /\ clSnap' = [clSnap EXCEPT ![i] =
                    IF ok THEN StaleIDs(registry, now, srConfig[i].ttl) ELSE {}]
    /\ UNCHANGED <<now, registry, srState, srConfig, reqConfig, guVars, cacheVars, svcVars, histVars>>

cleanupRead(i, ok) == cleanupReadCore(i, ok) /\ UNCHANGED timeVars

\* cleanupLoop, second half of a pass: HDel of staleIDs (ok = FALSE: it fails)
cleanupDelete_Dropped(i, ok) ==
    /\ srState[i] \in {"running", "stopping"}
    /\ clSnap[i] # {}
    /\ clSnap' = [clSnap EXCEPT ![i] = {}]
    /\ UNCHANGED <<now, registry, srState, srConfig, reqConfig, timeVars, guVars, cacheVars,
                   svcVars, histVars>>

cleanupDelete(i, ok) ==
    /\ srState[i] \in {"running", "stopping"}
    /\ clSnap[i] # {}
    /\ registry' = IF ok THEN [id \in Keys |-> IF id \in clSnap[i] THEN Absent
                                                ELSE registry[id]]
                   ELSE registry
    /\ clSnap' = [clSnap EXCEPT ![i] = {}]
    /\ UNCHANGED <<now, srState, srConfig, reqConfig, timeVars, guVars, cacheVars, svcVars, histVars>>

\* the filter GetActiveServices applies to a field it could unmarshal
IsActive_AnyAge(t, lastSeen, ttl) == TRUE

IsActive(t, lastSeen, ttl) == t - lastSeen <= ttl

\* GetActiveServices: the ids whose field unmarshals and is within the
\* caller's HeartbeatTTL at the read time
GetActiveServices(results, t, ttl) ==
    {id \in Keys : Unmarshals(results[id]) /\ IsActive(t, results[id].lastSeen, ttl)}

\* Stop, up to wg.Wait(): isStopped is set and both contexts are cancelled
StopBegin(i) ==
    /\ srState[i] = "running"
    /\ srState' = [srState EXCEPT ![i] = "stopping"]
    /\ UNCHANGED <<now, registry, srConfig, reqConfig, clSnap, timeVars, guVars,
                   cacheVars, svcVars, histVars>>

\* Stop, after wg.Wait(): both loops have exited; HDel of the own field,
\* a failure of which is only logged
StopDeregister(i, ok) ==
    /\ srState[i] = "stopping"
    /\ clSnap[i] = {}
    /\ registry' = IF ok THEN [registry EXCEPT ![i] = Absent] ELSE registry
    /\ srState' = [srState EXCEPT ![i] = "stopped"]
    /\ stopLog' = [stopLog EXCEPT ![i].hdel = @ + 1]
    /\ UNCHANGED <<now, srConfig, reqConfig, clSnap, timeVars, guVars, cacheVars, svcVars,
                   base, nticks, lost>>

\* Stop without the isStopped guard: a later call cancels again, finds no loop
\* to wait for and issues the HDel again
StopAgain_Unguarded(i) ==
    /\ srState[i] = "stopped"
    /\ stopLog[i].again < MaxStopCalls
    /\ registry' = [registry EXCEPT ![i] = Absent]
    /\ stopLog' = [stopLog EXCEPT ![i] = [hdel |-> @.hdel + 1, again |-> @.again + 1]]
    /\ UNCHANGED <<now, srState, srConfig, reqConfig, clSnap, timeVars, guVars, cacheVars,
                   svcVars, base, nticks, lost>>

\* Stop, called after an earlier call has returned: isStopped is set and the
\* call returns at once
StopAgain(i) ==
    /\ srState[i] = "stopped"
    /\ stopLog[i].again < MaxStopCalls
    /\ stopLog' = [stopLog EXCEPT ![i].again = @ + 1]
    /\ UNCHANGED <<now, regVars, timeVars, guVars, cacheVars, svcVars, base, nticks, lost>>

\* chMux with no holder, and the two loops of a GameUpdater between firings
Unlocked == [writer |-> FALSE, readers |-> 0]
NoRefresh == [pc |-> "idle", members |-> {}, todo |-> {}]
NoTick == [pc |-> "idle", uuids |-> {}, todo |-> {}]

\* the master shards of the cluster and the online markers whose hash slot
\* each of them serves
Shards == {"s1", "s2"}
KeysOn(s) == IF s = "s1" THEN {"p1"} ELSE {"p2"}

\* no GetAllOnlineUUIDs call in flight
NoScan ==
    [pc |-> "idle", begin |-> {}, res |-> <<>>,
     cb |-> [s \in Shards |-> [pc |-> "done", seen |-> {}, key |-> "", old |-> <<>>]]]

\* the process dies without running its deferred calls (kill -9, panic)
ProcessDies(i) ==
    /\ srState' = [srState EXCEPT ![i] = "crashed"]
    /\ clSnap' = [clSnap EXCEPT ![i] = {}]
    /\ guState' = [guState EXCEPT ![i] = IF guState[i] = "none" THEN "none" ELSE "done"]
    /\ ring' = [ring EXCEPT ![i] = RingNew]
    /\ chMux' = [chMux EXCEPT ![i] = Unlocked]
    /\ refresh' = [refresh EXCEPT ![i] = NoRefresh]
    /\ tick' = [tick EXCEPT ![i] = NoTick]
    /\ UNCHANGED scan

Crash(i) ==
    /\ srState[i] \in {"created", "running", "stopping"}
    /\ ProcessDies(i)
    /\ UNCHANGED <<now, registry, srConfig, reqConfig, timeVars, cacheVars, svcVars, histVars>>

\* the clock moves on by d seconds, up to the last value a specification looks at
AdvanceTime(d, max) ==
    /\ now + d <= max
    /\ now' = now + d
    /\ UNCHANGED <<regVars, timeVars, guVars, cacheVars, svcVars, histVars>>

-----------------------------------------------------------------------------
(* Tick partitioner: go/game/updater.go, and the accrual step of the redis   *)
(* client                                                                    *)

\* GameUpdater.Start: the own id is added to the ring made by NewGameUpdater,
\* then the ring-refresh loop and the tick loop run
StartCore_Seeded(i) ==
    /\ srState[i] = "running"
    /\ guState[i] = "none"
    /\ guState' = [guState EXCEPT ![i] = "running"]
    /\ ring' = [ring EXCEPT ![i] =
                  RingAddAll(RingNew,
                      CHOOSE order \in Orders(GetActiveServices(registry, now, srConfig[i].ttl)
                                                \cup {i}) : TRUE)]
    /\ UNCHANGED <<now, regVars, lockVars, cacheVars, svcVars, histVars>>

StartCore(i) ==
    /\ srState[i] = "running"
    /\ guState[i] = "none"
    /\ guState' = [guState EXCEPT ![i] = "running"]
    /\ ring' = [ring EXCEPT ![i] = RingAdd(ring[i], i)]
    /\ UNCHANGED <<now, regVars, lockVars, cacheVars, svcVars, histVars>>

Start(i) == StartCore(i) /\ UNCHANGED timeVars

\* GameUpdater.Stop: cancels gu.ctx; main calls it before registrar.Stop
guStop(i) ==
    /\ srState[i] = "running"
    /\ guState[i] \in {"none", "running"}
    /\ guState' = [guState EXCEPT ![i] = "done"]
    /\ UNCHANGED <<now, regVars, timeVars, ring, lockVars, cacheVars, svcVars, histVars>>

\* main's deferred calls in order: registrar.Stop after gameUpdater.Stop
mainStop(i) == guState[i] = "done" /\ StopBegin(i)

\* areStringSlicesEqual: equal lengths and every element of b in a
areStringSlicesEqual_SameLen(a, b) == Cardinality(a) = Cardinality(b)

areStringSlicesEqual(a, b) ==
    /\ Cardinality(a) = Cardinality(b)
    /\ \A x \in b : x \in a

\* the ring updateConsistentHashRing leaves behind for the snapshot `members`,
\* its members added in the order `order`
RefreshedRing_AddOnly(r, members, order) == RingAddAll(r, order)

RefreshedRing(r, members, order) ==
    IF ~areStringSlicesEqual(members, RingMembers(r))
    THEN RingAddAll(RingNew, order)
    ELSE r

\* updateConsistentHashRing: ok = FALSE is a failed GetActiveServices
updateRingCore(i, ok) ==
    /\ guState[i] = "running"
    /\ IF ok
       THEN LET members == GetActiveServices(registry, now, srConfig[i].ttl)
            IN  \E order \in Orders(members) :
                    ring' = [ring EXCEPT ![i] = RefreshedRing(ring[i], members, order)]
       ELSE UNCHANGED ring
    /\ UNCHANGED <<now, regVars, guState, lockVars, cacheVars, svcVars, histVars>>

updateConsistentHashRing(i, ok) == updateRingCore(i, ok) /\ UNCHANGED timeVars

\* the comparison of the ring's answer with gu.myServiceID
IsResponsible_Always(i, responsibleService) == responsibleService # ""

IsResponsible(i, responsibleService) == responsibleService = i

\* playersToUpdate of a tick of instance i over the enumerated uuids
PlayersToUpdate_All(i, onlineUUIDs) == onlineUUIDs

PlayersToUpdate(i, onlineUUIDs) ==
    {p \in onlineUUIDs : IsResponsible(i, RingGet(ring[i], p))}

\* outcomes of one IncrementPlayerPlaytime call:
\*   "ok"         every store call succeeds
\*   "getfail"    a GET fails: the call returns before the pipeline
\*   "execfail"   the pipeline applies neither increment
\*   "teamfail"   the pipeline applies the player's increment only
\*   "playerfail" the pipeline applies the team's increment only
Outcomes == {"ok", "getfail", "execfail", "teamfail", "playerfail"}
AllOk == [p \in Players |-> "ok"]

\* IncrementPlayerPlaytime reaches its pipeline: team key and delta key present
ReachesPipeline_NoTeam(p, out) ==
    /\ out # "getfail"
    /\ deltatime[p].has

ReachesPipeline(p, out) ==
    /\ out # "getfail"
    /\ teamKey[p] # ""
    /\ deltatime[p].has

\* what IncrementPlayerPlaytime(uuid) adds to playtime:{uuid}:
PlayerIncr_DefaultDelta(p, out) ==
    IF out \in {"ok", "teamfail"} /\ teamKey[p] # ""
    THEN (IF deltatime[p].has THEN deltatime[p].val ELSE 1) ELSE 0

PlayerIncr(p, out) ==
    IF ReachesPipeline(p, out) /\ out \in {"ok", "teamfail"}
    THEN deltatime[p].val ELSE 0

\* what IncrementPlayerPlaytime(uuid) adds to team_total_playtime:{t}:
TeamIncr(p, t, out) ==
    IF ReachesPipeline(p, out) /\ teamKey[p] = t /\ out \in {"ok", "playerfail"}
    THEN deltatime[p].val ELSE 0

\* INCRBYFLOAT: a missing key counts as 0 and is created
IncrByFloat_Set(v, d) == IF d = 0 THEN v ELSE Val(d)

IncrByFloat(v, d) == IF d = 0 THEN v ELSE Val(v.val + d)

\* the accrual loop of performGameTick over playersToUpdate
Accrue(todo, out) ==
    /\ playtime' = [p \in Players |->
                      IF p \in todo THEN IncrByFloat(playtime[p], PlayerIncr(p, out[p]))
                      ELSE playtime[p]]
    /\ teamTotal' = [t \in Teams |->
                      teamTotal[t] + SumFn([p \in Players |-> TeamIncr(p, t, out[p])], todo)]

\* an IncrementPlayerPlaytime call that found the team and delta keys
Attempted(p, todo) == p \in todo /\ teamKey[p] # "" /\ deltatime[p].has

\* bookkeeping of the accrual calls of one tick
CountTick(todo, out) ==
    /\ lost' = [p \in Players |-> lost[p] \/ (Attempted(p, todo) /\ out[p] # "ok")]
    /\ nticks' = [p \in Players |->
                    IF Attempted(p, todo) /\ ~lost[p] /\ out[p] = "ok"
                    THEN nticks[p] + 1 ELSE nticks[p]]
    /\ UNCHANGED <<base, stopLog>>

\* performGameTick: scanOk = FALSE is a failed GetAllOnlineUUIDs; out gives the
\* outcome of each IncrementPlayerPlaytime call.  With players online and an
\* empty ring, len(onlineUUIDs)/len(Members()) divides by zero: the panic
\* ends the process.
performGameTick(i, scanOk, out) ==
    /\ guState[i] = "running"
    /\ IF ~scanOk \/ online = {}
       THEN UNCHANGED <<regVars, guVars, cacheVars, histVars>>
       ELSE IF RingMembers(ring[i]) = {}
       THEN /\ ProcessDies(i)
            /\ UNCHANGED <<registry, srConfig, reqConfig, cacheVars, histVars>>
       ELSE /\ Accrue(PlayersToUpdate(i, online), out)
            /\ CountTick(PlayersToUpdate(i, online), out)
            /\ UNCHANGED <<regVars, guVars, online, deltatime, teamKey>>
    /\ UNCHANGED <<now, timeVars, svcVars>>

\* every cached total is below max: the tick may run in a bounded specification
BelowCap(max) ==
    /\ \A p \in Players : playtime[p].val < max /\ nticks[p] < max
    /\ \A t \in Teams : teamTotal[t] < max

\* a firing of the tick ticker of instance i in a bounded specification
tickLoop(i, scanOk, out, max) == BelowCap(max) /\ performGameTick(i, scanOk, out)

-----------------------------------------------------------------------------
(* Specification of the cluster: instances start, heartbeat, refresh their   *)
(* rings, tick, stop and crash; two players are online throughout.           *)

AvailableTeam(p) == IF p = "p1" THEN "AQUA_CREEPERS" ELSE "PURPLE_SWORDERS"

\* the record CreateProfile inserts for a new player
NewProfile(p) == [exists |-> TRUE, total |-> 0, delta |-> 1, team |-> AvailableTeam(p)]
NoProfile == [exists |-> FALSE, total |-> 0, delta |-> 0, team |-> ""]

\* no handler call in flight in a request slot
Idle == [op |-> "idle", pc |-> "", player |-> "", total |-> 0, delta |-> 0, team |-> ""]
Slots == {"r1", "r2"}

\* a PlaytimeSyncer between two cycles
SyncIdle ==
    [pc |-> "idle", calc |-> [t \in Teams |-> 0], todo |-> {}, resp |-> {},
     failed |-> FALSE, alone |-> FALSE, prev |-> 0]

InitCommon ==
    /\ now = 0
    /\ srState = [i \in Inst |-> "none"]
    /\ srConfig = [i \in Inst |-> NoConfig]
    /\ reqConfig = [i \in Inst |-> NoConfig]
    /\ clSnap = [i \in Inst |-> {}]
    /\ hbDue = [i \in Inst |-> 0]
    /\ clDue = [i \in Inst |-> 0]
    /\ chDue = [i \in Inst |-> 0]
    /\ guState = [i \in Inst |-> "none"]
    /\ ring = [i \in Inst |-> RingNew]
    /\ chMux = [i \in Inst |-> Unlocked]
    /\ refresh = [i \in Inst |-> NoRefresh]
    /\ tick = [i \in Inst |-> NoTick]
    /\ scan = NoScan
    /\ durTeam = [t \in Teams |-> 0]
    /\ req = [r \in Slots |-> Idle]
    /\ syncer = [i \in Inst |-> SyncIdle]
    /\ base = [p \in Players |-> 0]
    /\ nticks = [p \in Players |-> 0]
    /\ lost = [p \in Players |-> FALSE]
    /\ stopLog = [i \in Inst |-> [hdel |-> 0, again |-> 0]]

\* two players with fresh profiles are online, their session keys loaded
InitOnline ==
    /\ profile = [p \in Players |-> NewProfile(p)]
    /\ online = Players
    /\ playtime = [p \in Players |-> Val(0)]
    /\ deltatime = [p \in Players |-> Val(1)]
    /\ teamKey = [p \in Players |-> AvailableTeam(p)]
    /\ teamTotal = [t \in Teams |-> 0]

InitRing ==
    /\ InitCommon
    /\ registry = [id \in Keys |-> Absent]
    /\ InitOnline

NextRing ==
    \/ \E i \in Inst : NewServiceRegistrar(i, MainServiceConfig)
    \/ \E i \in Inst, ok \in BOOLEAN : Register(i, ok)
    \/ \E i \in Inst : Start(i)
    \/ \E i \in Inst, ok \in BOOLEAN : heartbeatLoop(i, ok)
    \/ \E i \in Inst, ok \in BOOLEAN : updateConsistentHashRing(i, ok)
    \/ \E i \in Inst, ok \in BOOLEAN : tickLoop(i, ok, AllOk, MaxPlaytime)
    \/ \E i \in Inst : guStop(i)
    \/ \E i \in Inst : mainStop(i)
    \/ \E i \in Inst, ok \in BOOLEAN : StopDeregister(i, ok)
    \/ \E i \in Inst : Crash(i)
    \/ AdvanceTime((DefaultServiceTimeout + 1) \div 2, MaxTimeRing)

vars == <<now, regVars, timeVars, guVars, cacheVars, svcVars, histVars>>

SpecRing == InitRing /\ [][NextRing]_vars

\* the instances whose tick loop is running
Alive == {i \in Inst : guState[i] = "running"}

\* the alive instances whose tick would select player p for accrual
OwnersOf(p) == {i \in Alive : p \in PlayersToUpdate(i, online)}

\* every alive instance's ring holds exactly the alive instances
StableRing ==
    /\ Alive # {}
    /\ \A i \in Alive : RingMembers(ring[i]) = Alive

\* C1: under a stable ring (every alive instance's ring holds the same member
\* set, and that set is the set of alive instances) every online player is
\* selected for accrual by exactly one alive instance, never none and never two.
C1_StableRingOneOwner ==
    StableRing => \A p \in online : Cardinality(OwnersOf(p)) = 1

\* both instances alive with the full ring, each owning one player, and ticks
\* have accrued to both players
C1_Witness ==
    /\ StableRing
    /\ Alive = Inst
    /\ OwnersOf("p1") = {"i2"}
    /\ OwnersOf("p2") = {"i1"}
    /\ \A p \in Players : playtime[p].val > 0

\* C2 as stated: whenever the alive instances' rings are non-empty, every
\* online player has exactly one alive owner, in every reachable state.
C2_AlwaysOneOwner ==
    (Alive # {} /\ \A i \in Alive : RingMembers(ring[i]) # {})
        => \A p \in online : Cardinality(OwnersOf(p)) = 1

\* the alive instances' rings hold one common member set and the member that
\* set assigns player p to is alive
AgreedOwnerAlive(p) ==
    /\ Alive # {}
    /\ \A i, j \in Alive : RingMembers(ring[i]) = RingMembers(ring[j])
    /\ \A i \in Alive : RingGet(ring[i], p) \in Alive

\* C2 amended: an online player has exactly one alive owner in every reachable
\* state in which the alive instances' rings hold one common member set and
\* the member that set assigns the player to is alive.
C2_AgreedRingsOneOwner ==
    \A p \in online : AgreedOwnerAlive(p) => Cardinality(OwnersOf(p)) = 1

\* i2 is gone, i1 still holds the ring of both, owns p2 and has accrued to it
C2_Witness ==
    /\ Alive = {"i1"}
    /\ RingMembers(ring["i1"]) = Inst
    /\ AgreedOwnerAlive("p2")
    /\ OwnersOf("p2") = {"i1"}
    /\ playtime["p2"].val > 0

-----------------------------------------------------------------------------
(* Specification of ring construction: rings are built from any member set   *)
(* in any order, the way Start and updateConsistentHashRing build them.      *)

\* consistent.New() followed by Add of every member, in the order given
BuildRing(i, order) ==
    /\ ring' = [ring EXCEPT ![i] = RingAddAll(RingNew, order)]
    /\ UNCHANGED <<now, regVars, timeVars, guState, lockVars, cacheVars, svcVars, histVars>>

\* one more Add on the ring an instance holds
AddToRing(i, elt) ==
    /\ elt \notin RingMembers(ring[i])
    /\ ring' = [ring EXCEPT ![i] = RingAdd(ring[i], elt)]
    /\ UNCHANGED <<now, regVars, timeVars, guState, lockVars, cacheVars, svcVars, histVars>>

NextBuild ==
    \/ \E i \in Inst, S \in SUBSET RingElts : \E order \in Orders(S) : BuildRing(i, order)
    \/ \E i \in Inst, elt \in RingElts : AddToRing(i, elt)

SpecBuild == InitRing /\ [][NextBuild]_vars

-----------------------------------------------------------------------------
(* The online and offline handlers and the durable sync.  A handler call     *)
(* occupies a request slot from its first store call to its response; each   *)
(* store call and each call of the player service is a step.  A first call   *)
(* that fails returns with nothing changed.                                  *)

Finish(r) == req' = [req EXCEPT ![r] = Idle]
Goto(r, pc) == req' = [req EXCEPT ![r].pc = pc]
At(r, op, pc) == req[r].op = op /\ req[r].pc = pc

\* bookkeeping: a handler wrote player p's cached total or delta
Rebase(p, total) ==
    /\ base' = [base EXCEPT ![p] = total]
    /\ nticks' = [nticks EXCEPT ![p] = 0]
    /\ lost' = [lost EXCEPT ![p] = FALSE]
    /\ UNCHANGED stopLog

\* CheckPlaytimeKeysExist
CheckPlaytimeKeysExist_Never(p) == FALSE

CheckPlaytimeKeysExist(p) == playtime[p].has /\ deltatime[p].has

\* HandleOnline up to the branch on CheckPlaytimeKeysExist
HandleOnlineCheck(r, p) ==
    /\ req[r] = Idle
    /\ req' = [req EXCEPT ![r] =
                 [op |-> "online",
                  pc |-> IF CheckPlaytimeKeysExist(p) THEN "mark" ELSE "profile",
                  player |-> p, total |-> 0, delta |-> 0, team |-> ""]]
    /\ UNCHANGED <<now, regVars, timeVars, guVars, cacheVars, profile, durTeam, syncer, histVars>>

\* GetProfile: the profile's values, the defaults 0.0 and 1.0 on a 404, or
\* an error response on any other failure
HandleOnlineGetProfile(r, ok) ==
    /\ At(r, "online", "profile")
    /\ IF ok
       THEN LET pr == profile[req[r].player]
            IN  req' = [req EXCEPT ![r] =
                          [op |-> "online", pc |-> "setTotal", player |-> req[r].player,
                           total |-> IF pr.exists THEN pr.total ELSE 0,
                           delta |-> IF pr.exists THEN pr.delta ELSE 1,
                           team  |-> IF pr.exists THEN pr.team ELSE ""]]
       ELSE Finish(r)
    /\ UNCHANGED <<now, regVars, timeVars, guVars, cacheVars, profile, durTeam, syncer, histVars>>

\* SetPlayerPlaytime
HandleOnlineSetTotal(r, ok) ==
    /\ At(r, "online", "setTotal")
    /\ IF ok
       THEN /\ playtime' = [playtime EXCEPT ![req[r].player] = Val(req[r].total)]
            /\ Rebase(req[r].player, req[r].total)
            /\ Goto(r, "setDelta")
       ELSE Finish(r) /\ UNCHANGED <<playtime, histVars>>
    /\ UNCHANGED <<now, regVars, timeVars, guVars, online, deltatime, teamKey, teamTotal,
                   profile, durTeam, syncer>>

\* SetDeltaPlaytime
HandleOnlineSetDelta(r, ok) ==
    /\ At(r, "online", "setDelta")
    /\ IF ok
       THEN /\ deltatime' = [deltatime EXCEPT ![req[r].player] = Val(req[r].delta)]
            /\ Rebase(req[r].player, playtime[req[r].player].val)
            /\ Goto(r, IF req[r].team # "" THEN "setTeam" ELSE "mark")
       ELSE Finish(r) /\ UNCHANGED <<deltatime, histVars>>
    /\ UNCHANGED <<now, regVars, timeVars, guVars, online, playtime, teamKey, teamTotal,
                   profile, durTeam, syncer>>

\* SetPlayerTeam: a failure is logged
HandleOnlineSetTeam(r, ok) ==
    /\ At(r, "online", "setTeam")
    /\ teamKey' = IF ok THEN [teamKey EXCEPT ![req[r].player] = req[r].team] ELSE teamKey
    /\ Goto(r, "mark")
    /\ UNCHANGED <<now, regVars, timeVars, guVars, online, playtime, deltatime, teamTotal,
                   profile, durTeam, syncer, histVars>>

\* SetOnlineStatus and the response
HandleOnlineMark(r, ok) ==
    /\ At(r, "online", "mark")
    /\ online' = IF ok THEN online \cup {req[r].player} ELSE online
    /\ Finish(r)
    /\ UNCHANGED <<now, regVars, timeVars, guVars, playtime, deltatime, teamKey, teamTotal,
                   profile, durTeam, syncer, histVars>>

\* HandleOffline up to the branch on the values GetPlayerPlaytimeAndDelta
\* returns: a missing key reads as 0
HandleOfflineRead(r, p) ==
    /\ req[r] = Idle
    /\ req' = [req EXCEPT ![r] =
                 [op |-> "offline",
                  pc |-> IF playtime[p].val > 0 \/ deltatime[p].val > 0
                         THEN "persist" ELSE "remove",
                  player |-> p, total |-> playtime[p].val, delta |-> deltatime[p].val,
                  team |-> ""]]
    /\ UNCHANGED <<now, regVars, timeVars, guVars, cacheVars, profile, durTeam, syncer, histVars>>

\* HandleOffline when GetPlayerPlaytimeAndDelta returns an error
HandleOfflineReadFails(r, p) ==
    /\ req[r] = Idle
    /\ req' = [req EXCEPT ![r] =
                 [op |-> "offline", pc |-> "error", player |-> p, total |-> 0, delta |-> 0,
                  team |-> ""]]
    /\ UNCHANGED <<now, regVars, timeVars, guVars, cacheVars, profile, durTeam, syncer, histVars>>

\* api.WriteError(w, http.StatusInternalServerError, ...) and the return
HandleOfflineWriteError_Continue(r) ==
    /\ At(r, "offline", "error")
    /\ Goto(r, "remove")
    /\ UNCHANGED <<now, regVars, timeVars, guVars, cacheVars, profile, durTeam, syncer, histVars>>

HandleOfflineWriteError(r) ==
    /\ At(r, "offline", "error")
    /\ Finish(r)
    /\ UNCHANGED <<now, regVars, timeVars, guVars, cacheVars, profile, durTeam, syncer, histVars>>

\* UpdateProfilePlaytime, UpdateProfileDeltaPlaytime, UpdateProfileLastLogin:
\* each may fail, and fails when the profile does not exist; failures are logged
HandleOfflinePersist_Abort(r, okTotal, okDelta) ==
    /\ At(r, "offline", "persist")
    /\ LET p == req[r].player
           pr == profile[p]
       IN  profile' = [profile EXCEPT ![p] =
                         [exists |-> pr.exists,
                          total |-> IF pr.exists /\ okTotal THEN req[r].total ELSE pr.total,
                          delta |-> IF pr.exists /\ okDelta THEN req[r].delta ELSE pr.delta,
                          team |-> pr.team]]
    /\ IF okTotal /\ okDelta /\ profile[req[r].player].exists
       THEN Goto(r, "remove") ELSE Finish(r)
    /\ UNCHANGED <<now, regVars, timeVars, guVars, cacheVars, durTeam, syncer, histVars>>

HandleOfflinePersist(r, okTotal, okDelta) ==
    /\ At(r, "offline", "persist")
    /\ LET p == req[r].player
           pr == profile[p]
       IN  profile' = [profile EXCEPT ![p] =
                         [exists |-> pr.exists,
                          total |-> IF pr.exists /\ okTotal THEN req[r].total ELSE pr.total,
                          delta |-> IF pr.exists /\ okDelta THEN req[r].delta ELSE pr.delta,
                          team |-> pr.team]]
    /\ Goto(r, "remove")
    /\ UNCHANGED <<now, regVars, timeVars, guVars, cacheVars, durTeam, syncer, histVars>>

\* RemovePlayerSessionData: a failure is logged
HandleOfflineRemove(r, ok) ==
    /\ At(r, "offline", "remove")
    /\ IF ok
       THEN LET p == req[r].player
            IN  /\ online' = online \ {p}
                /\ playtime' = [playtime EXCEPT ![p] = Missing]
                /\ deltatime' = [deltatime EXCEPT ![p] = Missing]
                /\ teamKey' = [teamKey EXCEPT ![p] = ""]
                /\ Rebase(p, 0)
       ELSE UNCHANGED <<online, playtime, deltatime, teamKey, histVars>>
    /\ Goto(r, "setOffline")
    /\ UNCHANGED <<now, regVars, timeVars, guVars, teamTotal, profile, durTeam, syncer>>

\* SetOfflineStatus and the response
HandleOfflineSetOffline(r, ok) ==
    /\ At(r, "offline", "setOffline")
    /\ online' = IF ok THEN online \ {req[r].player} ELSE online
    /\ Finish(r)
    /\ UNCHANGED <<now, regVars, timeVars, guVars, playtime, deltatime, teamKey, teamTotal,
                   profile, durTeam, syncer, histVars>>

\* the online marker's TTL runs out
ExpireOnline_Evict(p) ==
    /\ p \in online
    /\ online' = online \ {p}
    /\ playtime' = [playtime EXCEPT ![p] = Missing]
    /\ deltatime' = [deltatime EXCEPT ![p] = Missing]
    /\ teamKey' = [teamKey EXCEPT ![p] = ""]
    /\ UNCHANGED <<now, regVars, timeVars, guVars, teamTotal, svcVars, histVars>>

ExpireOnline(p) ==
    /\ p \in online
    /\ online' = online \ {p}
    /\ UNCHANGED <<now, regVars, timeVars, guVars, playtime, deltatime, teamKey, teamTotal,
                   svcVars, histVars>>

\* the $group aggregation of SyncTeamTotalsHandler: the teams that have a
\* player record, and the sum of the durable totals of a team's players
TeamsOfProfiles == {profile[p].team : p \in {q \in Players : profile[q].exists}}
CalculatedTotal_OnTop(t) ==
    durTeam[t] + SumFn([p \in Players |-> profile[p].total],
                       {p \in Players : profile[p].exists /\ profile[p].team = t})

CalculatedTotal(t) ==
    SumFn([p \in Players |-> profile[p].total],
          {p \in Players : profile[p].exists /\ profile[p].team = t})

\* one cycle of the playtime syncer whose calls all succeed
triggerPlayerServiceSync ==
    /\ durTeam' = [t \in Teams |->
                     IF t \in TeamsOfProfiles THEN CalculatedTotal(t) ELSE durTeam[t]]
    /\ teamTotal' = [t \in Teams |->
                       IF t \in TeamsOfProfiles THEN CalculatedTotal(t) ELSE teamTotal[t]]
    /\ UNCHANGED <<now, regVars, timeVars, guVars, online, playtime, deltatime, teamKey,
                   profile, req, syncer, histVars>>

-----------------------------------------------------------------------------
(* Specification of the handlers: instance i1 runs alone with the ring of    *)
(* itself; player p1 goes online and offline through concurrent handler      *)
(* calls, ticks accrue, the syncer runs, and every store call may fail.      *)
(* Player p1 either has a profile with delta 2 or has no profile.            *)

\* the players the handlers are called for
Callers == {"p1"}

\* the slots a mark-offline call may take: one such call is in flight at a time
OfflineSlots == {"r1"}

\* the outcomes of a tick's accrual calls: a call that does not find the
\* player's keys, or is not made, has no outcome to choose
TickOutcomes ==
    {out \in [Players -> Outcomes] :
        \A p \in Players :
            (p \notin online \/ teamKey[p] = "" \/ ~deltatime[p].has) => out[p] = "ok"}

InitCache ==
    /\ now = 0
    /\ registry = [id \in Keys |-> IF id = "i1" THEN InfoJSON(0) ELSE Absent]
    /\ srState = [i \in Inst |-> IF i = "i1" THEN "running" ELSE "none"]
    /\ srConfig = [i \in Inst |-> IF i = "i1" THEN WithDefaults(MainServiceConfig) ELSE NoConfig]
    /\ reqConfig = [i \in Inst |-> IF i = "i1" THEN MainServiceConfig ELSE NoConfig]
    /\ clSnap = [i \in Inst |-> {}]
    /\ hbDue = [i \in Inst |-> 0]
    /\ clDue = [i \in Inst |-> 0]
    /\ chDue = [i \in Inst |-> 0]
    /\ guState = [i \in Inst |-> IF i = "i1" THEN "running" ELSE "none"]
    /\ ring = [i \in Inst |-> IF i = "i1" THEN RingAdd(RingNew, "i1") ELSE RingNew]
    /\ chMux = [i \in Inst |-> Unlocked]
    /\ refresh = [i \in Inst |-> NoRefresh]
    /\ tick = [i \in Inst |-> NoTick]
    /\ scan = NoScan
    /\ online = {}
    /\ playtime = [p \in Players |-> Missing]
    /\ deltatime = [p \in Players |-> Missing]
    /\ teamKey = [p \in Players |-> ""]
    /\ teamTotal = [t \in Teams |-> 0]
    /\ profile \in
          {[p \in Players |-> NoProfile],
           [p \in Players |->
               IF p \in Callers
               THEN [exists |-> TRUE, total |-> 0, delta |-> 2, team |-> AvailableTeam(p)]
               ELSE NoProfile]}
    /\ durTeam = [t \in Teams |-> 0]
    /\ req = [r \in Slots |-> Idle]
    /\ syncer = [i \in Inst |-> SyncIdle]
    /\ base = [p \in Players |-> 0]
    /\ nticks = [p \in Players |-> 0]
    /\ lost = [p \in Players |-> FALSE]
    /\ stopLog = [i \in Inst |-> [hdel |-> 0, again |-> 0]]

NextCache ==
    \/ \E r \in Slots, p \in Callers : HandleOnlineCheck(r, p)
    \/ \E r \in Slots, ok \in BOOLEAN : HandleOnlineGetProfile(r, ok)
    \/ \E r \in Slots, ok \in BOOLEAN : HandleOnlineSetTotal(r, ok)
    \/ \E r \in Slots, ok \in BOOLEAN : HandleOnlineSetDelta(r, ok)
    \/ \E r \in Slots, ok \in BOOLEAN : HandleOnlineSetTeam(r, ok)
    \/ \E r \in Slots, ok \in BOOLEAN : HandleOnlineMark(r, ok)
    \/ \E r \in OfflineSlots, p \in Callers : HandleOfflineRead(r, p)
    \/ \E r \in Slots, okTotal \in BOOLEAN, okDelta \in BOOLEAN :
          HandleOfflinePersist(r, okTotal, okDelta)
    \/ \E r \in Slots, ok \in BOOLEAN : HandleOfflineRemove(r, ok)
    \/ \E r \in Slots, ok \in BOOLEAN : HandleOfflineSetOffline(r, ok)
    \/ \E p \in Players : ExpireOnline(p)
    \/ triggerPlayerServiceSync
    \/ \E i \in Inst, scanOk \in BOOLEAN, out \in TickOutcomes :
          tickLoop(i, scanOk, out, MaxPlaytimeCache)

SpecCache == InitCache /\ [][NextCache]_vars

\* C4: with the single-member ring of i1, a player's cached total is the
\* value a handler last wrote plus the player's delta for every accrual call
\* completed since, as long as no accrual call hit a store failure: n ticks
\* add exactly n times the delta (two ticks at delta 2 add 4).
C4_TicksAddDelta ==
    (StableRing /\ Alive = {"i1"}) =>
        \A p \in Players :
            (playtime[p].has /\ deltatime[p].has /\ ~lost[p])
                => playtime[p].val = base[p] + nticks[p] * deltatime[p].val

\* p1 is online with delta 2 and two ticks have added 4 to the loaded total
C4_Witness ==
    /\ StableRing
    /\ Alive = {"i1"}
    /\ "p1" \in online
    /\ deltatime["p1"] = Val(2)
    /\ nticks["p1"] = 2
    /\ ~lost["p1"]
    /\ playtime["p1"].val = base["p1"] + 4

\* C5 as stated: whatever the outcome of a tick's accrual calls, the tick adds
\* to each team's total exactly what it adds to the totals of that team's
\* players: never to one of the two counters and not to the other.
C5_BothOrNeither ==
    [][\A i \in Inst, scanOk \in BOOLEAN, out \in [Players -> Outcomes] :
          performGameTick(i, scanOk, out) =>
              \A t \in Teams :
                  teamTotal'[t] - teamTotal[t]
                      = SumFn([p \in Players |-> playtime'[p].val - playtime[p].val],
                              {p \in Players : teamKey[p] = t})
      ]_vars

\* C6 as stated: while a player is marked online, no step lowers the
\* player's cached total.
C6_TotalNeverDecreases ==
    [][\A p \in Players :
          (p \in online /\ p \in online' /\ playtime[p].has /\ playtime'[p].has)
              => playtime'[p].val >= playtime[p].val
      ]_vars

-----------------------------------------------------------------------------
(* Specification of NewServiceRegistrar: any ServiceConfig of a small set is *)
(* passed in; what was created then registers, heartbeats, cleans up, stops. *)

Configs ==
    [type : {"", "game-service"}, hb : {0, 5, 15}, ttl : {0, 5, 15}, cl : {0, 30}]

NextNew ==
    \/ \E i \in Inst, c \in Configs : NewServiceRegistrar(i, c)
    \/ \E i \in Inst, ok \in BOOLEAN : Register(i, ok)
    \/ \E i \in Inst, ok \in BOOLEAN : heartbeatLoop(i, ok)
    \/ \E i \in Inst, ok \in BOOLEAN : cleanupRead(i, ok)
    \/ \E i \in Inst, ok \in BOOLEAN : cleanupDelete(i, ok)
    \/ \E i \in Inst : StopBegin(i)
    \/ \E i \in Inst, ok \in BOOLEAN : StopDeregister(i, ok)

InitReg ==
    /\ InitCommon
    /\ registry \in {[id \in Keys |-> Absent],
                     [id \in Keys |-> IF id = Junk THEN Garbage ELSE Absent]}
    /\ InitOnline

SpecNew == InitReg /\ [][NextNew]_vars

\* a configured value, or its default when it is zero
C9_Effective(v, default) == IF v = 0 THEN default ELSE v

\* C9: creating a registrar fails whenever, after the defaults (heartbeat 5 s,
\* TTL 15 s) replace zero values, the TTL is not larger than the heartbeat
\* interval: no registrar exists, nothing of it is in the registry and no
\* cleanup pass of it is in flight.
C9_RejectsShortTTL ==
    \A i \in Inst :
        (/\ srState[i] # "none"
         /\ C9_Effective(reqConfig[i].ttl, 15) <= C9_Effective(reqConfig[i].hb, 5))
            => /\ srState[i] = "invalid"
               /\ registry[i] = Absent
               /\ clSnap[i] = {}

\* i1 was refused a TTL equal to the default heartbeat interval; i2, created
\* with a larger TTL, is registered next to it
C9_Witness ==
    /\ reqConfig["i1"].type = "game-service"
    /\ reqConfig["i1"].hb = 0
    /\ reqConfig["i1"].ttl = 5
    /\ srState["i1"] = "invalid"
    /\ srState["i2"] = "running"
    /\ registry["i2"] # Absent

-----------------------------------------------------------------------------
(* Specification of the registry: registrars of main()'s configuration       *)
(* register, heartbeat, clean up, stop and crash while the clock advances;   *)
(* every store call may fail.                                                *)

NextReg ==
    \/ \E i \in Inst : NewServiceRegistrar(i, MainServiceConfig)
    \/ \E i \in Inst, ok \in BOOLEAN : Register(i, ok)
    \/ \E i \in Inst, ok \in BOOLEAN : heartbeatLoop(i, ok)
    \/ \E i \in Inst, ok \in BOOLEAN : cleanupRead(i, ok)
    \/ \E i \in Inst, ok \in BOOLEAN : cleanupDelete(i, ok)
    \/ \E i \in Inst : StopBegin(i)
    \/ \E i \in Inst, ok \in BOOLEAN : StopDeregister(i, ok)
    \/ \E i \in Inst : Crash(i)
    \/ AdvanceTime(1, MaxTimeReg)

SpecReg == InitReg /\ [][NextReg]_vars

\* C7: what GetActiveServices returns to a running instance is exactly the
\* ids with a well-formed registry entry whose lastSeen is at most the TTL
\* before the read; an entry 16 s old under a TTL of 15 s is not returned
\* although no cleanup has removed it yet.
C7_ListAliveIffFresh ==
    \A i \in Inst : srState[i] = "running" =>
        \A id \in Keys :
            /\ id \in GetActiveServices(registry, now, srConfig[i].ttl)
                 <=> (registry[id].kind = "json"
                        /\ now - registry[id].lastSeen <= srConfig[i].ttl)
            /\ (registry[id].kind = "json" /\ now - registry[id].lastSeen >= 16)
                 => id \notin GetActiveServices(registry, now, 15)

\* i1's entry is 16 s old and still in the registry; i2, running, does not
\* get i1 from GetActiveServices but gets itself
C7_Witness ==
    /\ srState["i2"] = "running"
    /\ registry["i1"].kind = "json"
    /\ now - registry["i1"].lastSeen = 16
    /\ "i1" \notin GetActiveServices(registry, now, srConfig["i2"].ttl)
    /\ "i2" \in GetActiveServices(registry, now, srConfig["i2"].ttl)

\* C10: Register first performs one heartbeat.  A step in which Register
\* succeeds leaves the instance's entry, stamped with the current time, in the
\* registry, where GetActiveServices finds it, and the loops running; a step
\* in which that heartbeat fails leaves the registry as it was and the
\* registrar without loops: its state, its entry and its (empty) cleanup
\* snapshot never change afterwards.
C10_RegisterHeartbeatFirst ==
    [][\A i \in Inst :
        /\ (srState[i] = "created" /\ srState'[i] = "running")
             => /\ registry'[i] = InfoJSON(now)
                /\ i \in GetActiveServices(registry', now', srConfig[i].ttl)
        /\ (srState[i] = "created" /\ srState'[i] = "regfailed")
             => registry' = registry
        /\ (srState[i] = "created" /\ srState'[i] # "created")
             => srState'[i] \in {"running", "regfailed", "crashed"}
        /\ srState[i] = "regfailed"
             => /\ srState'[i] = "regfailed"
                /\ clSnap'[i] = {}
                /\ registry'[i] = registry[i]
      ]_vars

\* i1's Register failed and left no entry; i2's Register succeeded
C10_Witness ==
    /\ srState["i1"] = "regfailed"
    /\ registry["i1"] = Absent
    /\ srState["i2"] = "running"
    /\ registry["i2"] = InfoJSON(now)

\* C11: Stop cancels both loops, waits for them and only then deletes the
\* instance's own entry.  From the cancellation on no step writes a heartbeat
\* of the instance: its entry only stays or goes.  The delete happens with no
\* cleanup pass of the instance in flight, and none starts afterwards.  Once
\* Stop has returned and the entry is absent it stays absent and no running
\* peer gets the instance from GetActiveServices; when every instance has
\* stopped the registry does not change any more.
C11_StopThenDeregister ==
    [][/\ \A i \in Inst :
            /\ srState[i] \in {"stopping", "stopped"}
                 => /\ registry'[i] \in {registry[i], Absent}
                    /\ srState'[i] \in {"stopping", "stopped", "crashed"}
            /\ (srState[i] = "stopping" /\ srState'[i] = "stopped")
                 => /\ clSnap[i] = {}
                    /\ \A k \in Keys \ {i} : registry'[k] = registry[k]
            /\ srState[i] = "stopped"
                 => srState'[i] = "stopped" /\ clSnap'[i] = {}
            /\ (srState[i] = "stopped" /\ registry[i] = Absent)
                 => /\ registry'[i] = Absent
                    /\ \A j \in Inst : srState'[j] = "running"
                          => i \notin GetActiveServices(registry', now', srConfig[j].ttl)
       /\ (\A i \in Inst : srState[i] = "stopped") => registry' = registry
      ]_vars

\* i1 has stopped and its entry, younger than the TTL when Stop deleted it,
\* is gone, while i2 is running and listed
C11_Witness ==
    /\ srState["i1"] = "stopped"
    /\ registry["i1"] = Absent
    /\ now < DefaultServiceTimeout
    /\ srState["i2"] = "running"
    /\ GetActiveServices(registry, now, srConfig["i2"].ttl) = {"i2"}

-----------------------------------------------------------------------------
(* Timed specification of the registry: the heartbeat and cleanup tickers    *)
(* fire at their intervals, the store is available, and the clock does not   *)
(* pass a firing time before the loop has handled it.                        *)

\* Register, starting both tickers
RegisterT(i) ==
    /\ now <= MaxRegTime
    /\ RegisterCore(i, TRUE)
    /\ hbDue' = [hbDue EXCEPT ![i] = now + srConfig[i].hb]
    /\ clDue' = [clDue EXCEPT ![i] = now + srConfig[i].cl]
    /\ UNCHANGED chDue

\* heartbeatLoop at a firing of its ticker
heartbeatT(i) ==
    /\ hbDue[i] = now
    /\ heartbeatCore(i, TRUE)
    /\ hbDue' = [hbDue EXCEPT ![i] = now + srConfig[i].hb]
    /\ UNCHANGED <<clDue, chDue>>

\* cleanupLoop at a firing of its ticker: the HGetAll and the selection
cleanupReadT(i) ==
    /\ clDue[i] = now
    /\ cleanupReadCore(i, TRUE)
    /\ clDue' = [clDue EXCEPT ![i] = now + srConfig[i].cl]
    /\ UNCHANGED <<hbDue, chDue>>

CrashT(i) == now <= MaxCrashTime /\ Crash(i)

\* Stop is called while the clock leaves the peers time for a cleanup pass
StopBeginT(i) == now <= MaxCrashTime /\ StopBegin(i)

\* the clock advances by a second when no ticker is due and no pass is open
AdvanceTimeT ==
    /\ \A i \in Inst : srState[i] = "running" => hbDue[i] > now /\ clDue[i] > now
    /\ \A i \in Inst : guState[i] = "running" => chDue[i] > now
    /\ \A i \in Inst : clSnap[i] = {}
    /\ AdvanceTime(1, MaxTimeLive)

NextLive ==
    \/ \E i \in Inst : NewServiceRegistrar(i, MainServiceConfig)
    \/ \E i \in Inst : RegisterT(i)
    \/ \E i \in Inst : heartbeatT(i)
    \/ \E i \in Inst : cleanupReadT(i)
    \/ \E i \in Inst : cleanupDelete(i, TRUE)
    \/ \E i \in Inst : StopBeginT(i)
    \/ \E i \in Inst, ok \in BOOLEAN : StopDeregister(i, ok)
    \/ \E i \in Inst : CrashT(i)
    \/ AdvanceTimeT

SpecLive ==
    /\ InitRing
    /\ [][NextLive]_vars
    /\ WF_vars(AdvanceTimeT)
    /\ \A i \in Inst : WF_vars(heartbeatT(i))
    /\ \A i \in Inst : WF_vars(cleanupReadT(i))
    /\ \A i \in Inst : WF_vars(cleanupDelete(i, TRUE))

\* C8: once a crashed instance's last heartbeat is older than the TTL, and so
\* from TTL + cleanup interval after it at the latest, no running instance
\* gets it from GetActiveServices; and while a peer keeps running, the
\* crashed instance's registry entry is eventually deleted.
C8_TTLLiveness ==
    /\ [](\A i \in Inst :
            (srState[i] = "crashed" /\ registry[i] # Absent
                /\ now - registry[i].lastSeen > DefaultServiceTimeout)
              => \A j \in Inst : srState[j] = "running"
                    => i \notin GetActiveServices(registry, now, srConfig[j].ttl))
    /\ \A i \in Inst : \A j \in Inst \ {i} :
          (srState[i] = "crashed")
              ~> (registry[i] = Absent \/ srState[j] # "running")

\* i1 crashed after registering, its entry has outlived the TTL, and the
\* cleanup pass of the running i2 has picked it for deletion
C8_Witness ==
    /\ srState["i1"] = "crashed"
    /\ registry["i1"].kind = "json"
    /\ now - registry["i1"].lastSeen > DefaultServiceTimeout
    /\ srState["i2"] = "running"
    /\ "i1" \in clSnap["i2"]

\* C12: a Stop whose HDel fails still completes: the instance is stopped with
\* its entry left as it was.  From then on no step writes a heartbeat of it,
\* no running peer gets it from GetActiveServices once the entry is older than
\* the TTL, and while a peer keeps running the leftover entry is eventually
\* deleted by the peer's cleanup pass.
C12_FailedDeregisterCleanedUp ==
    /\ [][\A i \in Inst :
            /\ (srState[i] = "stopping" /\ srState'[i] # "stopping")
                 => srState'[i] \in {"stopped", "crashed"}
            /\ srState[i] = "stopped"
                 => /\ srState'[i] = "stopped"
                    /\ registry'[i] \in {registry[i], Absent}
                    /\ hbDue'[i] = hbDue[i]
         ]_vars
    /\ [](\A i \in Inst :
            (srState[i] = "stopped" /\ registry[i] # Absent
                /\ now - registry[i].lastSeen > DefaultServiceTimeout)
              => \A j \in Inst : srState[j] = "running"
                    => i \notin GetActiveServices(registry, now, srConfig[j].ttl))
    /\ \A i \in Inst : \A j \in Inst \ {i} :
          (srState[i] = "stopped" /\ registry[i] # Absent)
              ~> (registry[i] = Absent \/ srState[j] # "running")

\* i1's Stop has returned after a failed HDel, its entry has outlived the
\* TTL, and the cleanup pass of the running i2 has picked it for deletion
C12_Witness ==
    /\ srState["i1"] = "stopped"
    /\ registry["i1"].kind = "json"
    /\ now - registry["i1"].lastSeen > DefaultServiceTimeout
    /\ srState["i2"] = "running"
    /\ "i1" \in clSnap["i2"]

-----------------------------------------------------------------------------
(* The durable sync, step by step: PlaytimeSyncer.triggerPlayerServiceSync   *)
(* of an instance calls SyncTeamTotalsHandler of the player service, which   *)
(* aggregates the player records, writes each team's durable total and       *)
(* answers with the totals it wrote; the syncer then sets each cached team   *)
(* total.  Every call is a step, so that cycles of two instances and         *)
(* updates of the player records interleave.                                 *)

\* the totals a player record is created with or updated to, and the cached
\* team totals an earlier accrual may have left behind
SyncTotals == {5, 10}
StaleTotals == {0, 12}

\* RedisClient.SetTeamTotal: SET of the team's key
SetTeamTotal_IncrBy(old, v) == old + v

SetTeamTotal(old, v) == v

\* the aggregation's result for every team ($group yields no row for a team
\* without player records)
Aggregated == [t \in Teams |-> IF t \in TeamsOfProfiles THEN CalculatedTotal(t) ELSE 0]

\* the process of instance i exists: main has not returned and nothing killed it
ProcessAlive(i) == srState[i] \in {"running", "stopping", "stopped"}

\* bookkeeping: a cycle of another instance starts, or a player record changes
Disturb(sy) == [j \in Inst |-> [sy[j] EXCEPT !.alone = FALSE]]

\* PlaytimeSyncer.Start at a firing of its ticker, before main's deferred
\* Stop calls have cancelled the loops: triggerPlayerServiceSync calls the
\* player service; SyncTeamTotalsHandler runs the aggregation.  A failed
\* aggregation is answered with an error, on which the syncer returns.
SyncAggregate(i, ok) ==
    /\ srState[i] = "running"
    /\ guState[i] = "running"
    /\ syncer[i].pc = "idle"
    /\ syncer' = IF ok
                 THEN [Disturb(syncer) EXCEPT ![i] =
                         [pc |-> IF TeamsOfProfiles = {} THEN "respond" ELSE "update",
                          calc |-> Aggregated, todo |-> TeamsOfProfiles, resp |-> {},
                          failed |-> FALSE,
                          alone |-> \A j \in Inst \ {i} : syncer[j].pc = "idle",
                          prev |-> 0]]
                 ELSE syncer
    /\ UNCHANGED <<now, regVars, timeVars, guVars, cacheVars, profile, durTeam, req, histVars>>

\* SyncTeamTotalsHandler, one row of the cursor: UpdateOne with upsert of the
\* team's durable total; only a team whose update succeeded enters the answer
SyncUpdateOne(i, t, ok) ==
    /\ syncer[i].pc = "update"
    /\ t \in syncer[i].todo
    /\ durTeam' = IF ok THEN [durTeam EXCEPT ![t] = syncer[i].calc[t]] ELSE durTeam
    /\ syncer' = [syncer EXCEPT ![i].todo = @ \ {t},
                                ![i].resp = IF ok THEN @ \cup {t} ELSE @,
                                ![i].failed = @ \/ ~ok,
                                ![i].pc = IF syncer[i].todo = {t} THEN "respond" ELSE "update"]
    /\ UNCHANGED <<now, regVars, timeVars, guVars, cacheVars, profile, req, histVars>>

\* the answer reaches the syncer, or the call fails and the syncer returns
SyncRespond(i, ok) ==
    /\ ProcessAlive(i)
    /\ syncer[i].pc = "respond"
    /\ syncer' = [syncer EXCEPT ![i] =
                    IF ok THEN [syncer[i] EXCEPT !.pc = "set", !.todo = syncer[i].resp]
                    ELSE SyncIdle]
    /\ UNCHANGED <<now, regVars, timeVars, guVars, cacheVars, profile, durTeam, req, histVars>>

\* triggerPlayerServiceSync, one team of resp.TeamTotals: SetTeamTotal, a
\* failure of which is logged
SyncSetTeamTotal_Abort(i, t, ok) ==
    /\ ProcessAlive(i)
    /\ syncer[i].pc = "set"
    /\ t \in syncer[i].todo
    /\ teamTotal' = IF ok
                    THEN [teamTotal EXCEPT ![t] = syncer[i].calc[t]]
                    ELSE teamTotal
    /\ syncer' = [syncer EXCEPT ![i].todo = IF ok THEN @ \ {t} ELSE {},
                                ![i].failed = @ \/ ~ok,
                                ![i].prev = IF ok THEN teamTotal[t] ELSE @]
    /\ UNCHANGED <<now, regVars, timeVars, guVars, online, playtime, deltatime, teamKey,
                   profile, durTeam, req, histVars>>

SyncSetTeamTotal(i, t, ok) ==
    /\ ProcessAlive(i)
    /\ syncer[i].pc = "set"
    /\ t \in syncer[i].todo
    /\ teamTotal' = IF ok
                    THEN [teamTotal EXCEPT ![t] = SetTeamTotal(teamTotal[t], syncer[i].calc[t])]
                    ELSE teamTotal
    /\ syncer' = [syncer EXCEPT ![i].todo = @ \ {t},
                                ![i].failed = @ \/ ~ok,
                                ![i].prev = IF ok THEN teamTotal[t] ELSE @]
    /\ UNCHANGED <<now, regVars, timeVars, guVars, online, playtime, deltatime, teamKey,
                   profile, durTeam, req, histVars>>

\* triggerPlayerServiceSync returns
SyncReturn(i) ==
    /\ ProcessAlive(i)
    /\ syncer[i].pc = "set"
    /\ syncer[i].todo = {}
    /\ syncer' = [syncer EXCEPT ![i] = SyncIdle]
    /\ UNCHANGED <<now, regVars, timeVars, guVars, cacheVars, profile, durTeam, req, histVars>>

\* UpdateProfilePlaytimeHandler of the player service: $set of a player
\* record's total (the flush of a session that ends)
UpdateProfilePlaytimeHandler(p, v) ==
    /\ profile[p].exists
    /\ profile[p].total # v
    /\ profile' = [profile EXCEPT ![p].total = v]
    /\ syncer' = Disturb(syncer)
    /\ UNCHANGED <<now, regVars, timeVars, guVars, cacheVars, durTeam, req, histVars>>

\* Both instances are registered and run their syncers.  Player p1 has a
\* record in team AQUA_CREEPERS, player p2 has none or one in either team
\* with the smaller total; the cached total of a team that has players may be
\* stale.  The sessions that end and flush are those of the callers.
InitSync ==
    /\ now = 0
    /\ registry = [id \in Keys |-> IF id \in Inst THEN InfoJSON(0) ELSE Absent]
    /\ srState = [i \in Inst |-> "running"]
    /\ srConfig = [i \in Inst |-> WithDefaults(MainServiceConfig)]
    /\ reqConfig = [i \in Inst |-> MainServiceConfig]
    /\ clSnap = [i \in Inst |-> {}]
    /\ hbDue = [i \in Inst |-> 0]
    /\ clDue = [i \in Inst |-> 0]
    /\ chDue = [i \in Inst |-> 0]
    /\ guState = [i \in Inst |-> "running"]
    /\ ring = [i \in Inst |-> RingAddAll(RingNew, <<"i1", "i2">>)]
    /\ chMux = [i \in Inst |-> Unlocked]
    /\ refresh = [i \in Inst |-> NoRefresh]
    /\ tick = [i \in Inst |-> NoTick]
    /\ scan = NoScan
    /\ online = {}
    /\ playtime = [p \in Players |-> Missing]
    /\ deltatime = [p \in Players |-> Missing]
    /\ teamKey = [p \in Players |-> ""]
    /\ \E v1 \in SyncTotals, v2 \in {MinOf(SyncTotals)}, t2 \in Teams \cup {""} :
          profile = [p \in Players |->
                       IF p = "p1"
                       THEN [exists |-> TRUE, total |-> v1, delta |-> 1,
                             team |-> "AQUA_CREEPERS"]
                       ELSE IF t2 = "" THEN NoProfile
                       ELSE [exists |-> TRUE, total |-> v2, delta |-> 1, team |-> t2]]
    /\ teamTotal \in [Teams -> StaleTotals]
    /\ \A t \in Teams \ TeamsOfProfiles : teamTotal[t] = 0
    /\ durTeam = [t \in Teams |-> 0]
    /\ req = [r \in Slots |-> Idle]
    /\ syncer = [i \in Inst |-> SyncIdle]
    /\ base = [p \in Players |-> 0]
    /\ nticks = [p \in Players |-> 0]
    /\ lost = [p \in Players |-> FALSE]
    /\ stopLog = [i \in Inst |-> [hdel |-> 0, again |-> 0]]

NextSync ==
    \/ \E i \in Inst, ok \in BOOLEAN : SyncAggregate(i, ok)
    \/ \E i \in Inst, t \in Teams, ok \in BOOLEAN : SyncUpdateOne(i, t, ok)
    \/ \E i \in Inst, ok \in BOOLEAN : SyncRespond(i, ok)
    \/ \E i \in Inst, t \in Teams, ok \in BOOLEAN : SyncSetTeamTotal(i, t, ok)
    \/ \E i \in Inst : SyncReturn(i)
    \/ \E p \in Callers, v \in SyncTotals : UpdateProfilePlaytimeHandler(p, v)

SpecSync == InitSync /\ [][NextSync]_vars

\* durable and cached totals of every team that has players are the sum of
\* the durable totals of the team's players
Synced ==
    \A t \in TeamsOfProfiles :
        /\ durTeam[t] = SumFn([p \in Players |-> profile[p].total],
                              {p \in Players : profile[p].exists /\ profile[p].team = t})
        /\ teamTotal[t] = durTeam[t]

\* the syncer's call has returned from a cycle in which every call succeeded
\* and during which no other cycle ran and no player record changed
CycleDoneAlone(i) ==
    /\ syncer[i].pc = "set"
    /\ syncer[i].todo = {}
    /\ ~syncer[i].failed
    /\ syncer[i].alone

\* C13: a sync cycle computes for each team the sum of the durable totals of
\* the team's players, sets the team's durable total to it and then sets,
\* never increments, the team's cached total to exactly that value whatever
\* the cache held; after a cycle that ran undisturbed and without a failure
\* both totals of every team with players are that sum (10 and 5 give 15,
\* also over a cached 12).
C13_SyncOverwrites ==
    /\ [](\A i \in Inst : CycleDoneAlone(i) => Synced)
    /\ [][\A i \in Inst : \A t \in Teams :
            /\ (syncer[i].pc = "idle" /\ syncer'[i].pc # "idle" /\ t \in TeamsOfProfiles)
                 => syncer'[i].calc[t]
                      = SumFn([p \in Players |-> profile[p].total],
                              {p \in Players : profile[p].exists /\ profile[p].team = t})
            /\ (syncer[i].pc = "update" /\ t \in syncer'[i].resp \ syncer[i].resp)
                 => durTeam'[t] = syncer[i].calc[t]
            /\ SyncSetTeamTotal(i, t, TRUE)
                 => /\ teamTotal'[t] = syncer[i].calc[t]
                    /\ syncer'[i].prev = teamTotal[t]
                    /\ durTeam[t] = syncer[i].calc[t] \/ ~syncer[i].alone
         ]_vars

\* the players of AQUA_CREEPERS have the durable totals 10 and 5, the cache
\* held 12, and a cycle of i1 has set the durable and the cached total to 15
C13_Witness ==
    /\ profile["p1"].total = 10
    /\ profile["p2"].total = 5
    /\ profile["p2"].team = "AQUA_CREEPERS"
    /\ CycleDoneAlone("i1")
    /\ syncer["i1"].prev = 12
    /\ durTeam["AQUA_CREEPERS"] = 15
    /\ teamTotal["AQUA_CREEPERS"] = 15

\* C14 as stated: in the step in which an instance's sync cycle completes
\* with every call of it successful, every team's cached total equals the
\* team's durable total, whatever cycles of other instances and updates of
\* player records ran meanwhile.
C14_CacheEqualsDurableAfterSync ==
    [][\A i \in Inst :
          (/\ ~(syncer[i].pc = "set" /\ syncer[i].todo = {})
           /\ syncer'[i].pc = "set" /\ syncer'[i].todo = {}
           /\ ~syncer'[i].failed)
              => \A t \in Teams : teamTotal'[t] = durTeam'[t]
      ]_vars

\* every cycle in flight carries the sums of the present player records
NoStaleCycle == \A i \in Inst : syncer[i].pc # "idle" => syncer[i].calc = Aggregated

\* C15: a sync cycle that ran undisturbed and without a failure leaves both
\* totals of every team with players at the sum of the players' durable
\* totals, and from such a state on, while no player record changes and no
\* cycle begun before is still in flight, no step of a further cycle changes
\* any durable or cached team total: after the second run the totals are
\* those after the first.
C15_SyncIdempotent ==
    /\ [](\A i \in Inst : CycleDoneAlone(i) => (Synced /\ NoStaleCycle))
    /\ [][(Synced /\ NoStaleCycle /\ profile' = profile)
            => (durTeam' = durTeam /\ teamTotal' = teamTotal)
         ]_vars

\* i2 has run a cycle undisturbed after an earlier cycle had set both totals
\* of AQUA_CREEPERS to 15: its SetTeamTotal wrote 15 over 15
C15_Witness ==
    /\ CycleDoneAlone("i2")
    /\ "AQUA_CREEPERS" \in syncer["i2"].resp
    /\ syncer["i2"].prev = 15
    /\ syncer["i2"].calc["AQUA_CREEPERS"] = 15
    /\ durTeam["AQUA_CREEPERS"] = 15
    /\ teamTotal["AQUA_CREEPERS"] = 15

\* the session keys of player p that are present
SessionKeys(p) ==
    (IF p \in online THEN {"online"} ELSE {})
        \cup (IF playtime[p].has THEN {"playtime"} ELSE {})
        \cup (IF deltatime[p].has THEN {"deltatime"} ELSE {})
        \cup (IF teamKey[p] # "" THEN {"team"} ELSE {})

\* C16 as stated: a mark-offline call deletes session keys only in its steps
\* after the durable writes, and when the call answers with success none of
\* the player's four session keys (online marker, total, delta, team) is
\* left.
C16_OfflineClearsSession ==
    [][\A r \in Slots : \A p \in Players :
          /\ (req[r].op = "offline" /\ req[r].player = p
                /\ ~(SessionKeys(p)' = SessionKeys(p))
                /\ req'[r] # req[r])
               => req[r].pc \in {"remove", "setOffline"}
          /\ (req[r].player = p /\ HandleOfflineSetOffline(r, TRUE))
               => SessionKeys(p)' = {}
      ]_vars

C18_AtMostOneTickLost ==
    [][\A r \in Slots : \A p \in Players :
          (/\ req[r].player = p
           /\ HandleOfflineRemove(r, TRUE)
           /\ \A q \in Slots \ {r} : req[q] = Idle
           /\ profile[p].exists /\ profile[p].total = req[r].total
           /\ playtime[p].has /\ deltatime[p] = Val(req[r].delta) /\ ~lost[p])
              => /\ playtime[p].val - profile[p].total <= deltatime[p].val
                 /\ profile[p].total - playtime[p].val <= deltatime[p].val
      ]_vars

\* C19: a mark-online call that finds no cached total or delta fetches the
\* durable record and writes its total, its delta and its team to the cache
\* before it sets the marker; a call that finds both keys goes straight to
\* the marker, and its only write adds the player to the online set: total,
\* delta, team and team totals stay as the first call and the ticks left
\* them, so further calls change nothing that one call did not.
C19_MarkOnlineIdempotent ==
    [][\A r \in Slots :
          /\ \A p \in Players :
                HandleOnlineCheck(r, p)
                    => req'[r].pc = IF playtime[p].has /\ deltatime[p].has
                                    THEN "mark" ELSE "profile"
          /\ (At(r, "online", "profile") /\ req'[r].pc = "setTotal"
                /\ profile[req[r].player].exists)
               => /\ req'[r].total = profile[req[r].player].total
                  /\ req'[r].delta = profile[req[r].player].delta
                  /\ req'[r].team = profile[req[r].player].team
          /\ HandleOnlineSetTotal(r, TRUE) => playtime'[req[r].player] = Val(req[r].total)
          /\ HandleOnlineSetDelta(r, TRUE) => deltatime'[req[r].player] = Val(req[r].delta)
          /\ HandleOnlineSetTeam(r, TRUE) => teamKey'[req[r].player] = req[r].team
          /\ (At(r, "online", "mark") /\ req'[r] # req[r])
               => /\ req'[r] = Idle
                  /\ online' \in {online, online \cup {req[r].player}}
                  /\ <<playtime, deltatime, teamKey, teamTotal>>'
                        = <<playtime, deltatime, teamKey, teamTotal>>
                  /\ histVars' = histVars
      ]_vars

\* p1 is online with the loaded delta and team and a total that a tick has
\* raised; a further mark-online call for p1 has found both keys and, having
\* loaded nothing, is about to refresh the marker
C19_Witness ==
    /\ "p1" \in online
    /\ playtime["p1"] = Val(2)
    /\ deltatime["p1"] = Val(2)
    /\ teamKey["p1"] = "AQUA_CREEPERS"
    /\ nticks["p1"] = 1
    /\ At("r2", "online", "mark")
    /\ req["r2"].player = "p1"
    /\ req["r2"].delta = 0
    /\ req["r1"] = Idle

-----------------------------------------------------------------------------
(* Specification of shutdown: both instances run with two players online;    *)
(* they tick, sync, and shut down the way main's deferred calls do:          *)
(* playtimeSyncer.Stop and gameUpdater.Stop cancel, registrar.Stop cancels,  *)
(* waits for its own two loops and deregisters, and main returns.            *)

\* main returns after its deferred calls: the process and its goroutines end
mainReturn(i) ==
    /\ srState[i] = "stopped"
    /\ srState' = [srState EXCEPT ![i] = "exited"]
    /\ UNCHANGED <<now, registry, srConfig, reqConfig, clSnap, timeVars, guVars, cacheVars,
                   svcVars, histVars>>

InitStop ==
    /\ now = 0
    /\ registry = [id \in Keys |-> IF id \in Inst THEN InfoJSON(0) ELSE Absent]
    /\ srState = [i \in Inst |-> "running"]
    /\ srConfig = [i \in Inst |-> WithDefaults(MainServiceConfig)]
    /\ reqConfig = [i \in Inst |-> MainServiceConfig]
    /\ clSnap = [i \in Inst |-> {}]
    /\ hbDue = [i \in Inst |-> 0]
    /\ clDue = [i \in Inst |-> 0]
    /\ chDue = [i \in Inst |-> 0]
    /\ guState = [i \in Inst |-> "running"]
    /\ ring = [i \in Inst |-> RingAddAll(RingNew, <<"i1", "i2">>)]
    /\ chMux = [i \in Inst |-> Unlocked]
    /\ refresh = [i \in Inst |-> NoRefresh]
    /\ tick = [i \in Inst |-> NoTick]
    /\ scan = NoScan
    /\ InitOnline
    /\ durTeam = [t \in Teams |-> 0]
    /\ req = [r \in Slots |-> Idle]
    /\ syncer = [i \in Inst |-> SyncIdle]
    /\ base = [p \in Players |-> 0]
    /\ nticks = [p \in Players |-> 0]
    /\ lost = [p \in Players |-> FALSE]
    /\ stopLog = [i \in Inst |-> [hdel |-> 0, again |-> 0]]

NextStop ==
    \/ \E i \in Inst, ok \in BOOLEAN : tickLoop(i, ok, AllOk, MaxPlaytime)
    \/ \E i \in Inst, ok \in BOOLEAN : SyncAggregate(i, ok)
    \/ \E i \in Inst, t \in Teams, ok \in BOOLEAN : SyncUpdateOne(i, t, ok)
    \/ \E i \in Inst, ok \in BOOLEAN : SyncRespond(i, ok)
    \/ \E i \in Inst, t \in Teams, ok \in BOOLEAN : SyncSetTeamTotal(i, t, ok)
    \/ \E i \in Inst : SyncReturn(i)
    \/ \E i \in Inst : guStop(i)
    \/ \E i \in Inst : mainStop(i)
    \/ \E i \in Inst, ok \in BOOLEAN : StopDeregister(i, ok)
    \/ \E i \in Inst : mainReturn(i)

SpecStop == InitStop /\ [][NextStop]_vars

\* C20 as stated: the registry entry of an instance is deleted only when its
\* tick loop, its syncer and its registrar loops have exited, and once the
\* entry is deleted no step of the instance accrues a tick or writes a team
\* total of a sync cycle.
C20_LoopsExitBeforeDeregister ==
    [][\A i \in Inst :
          /\ (srState[i] = "stopping" /\ srState'[i] = "stopped")
               => /\ guState[i] = "done"
                  /\ clSnap[i] = {}
                  /\ syncer[i].pc = "idle"
          /\ (srState[i] = "stopped" /\ registry[i] = Absent)
               => /\ \A t \in Teams, ok \in BOOLEAN : ~SyncSetTeamTotal(i, t, ok)
                  /\ \A ok \in BOOLEAN : ~performGameTick(i, ok, AllOk)
      ]_vars

-----------------------------------------------------------------------------
(* The tick and the ring refresh, step by step.  The two loops of a          *)
(* GameUpdater are goroutines that share gu.consistentHash under gu.chMux:   *)
(* every store call, every acquisition of the lock and every Add is a step.  *)

\* updateConsistentHashRing up to chMux.Lock(): GetActiveServices and the
\* member list; ok = FALSE is a failed read, which returns
RefreshRead(i, ok) ==
    /\ guState[i] = "running"
    /\ refresh[i].pc = "idle"
    /\ refresh' = [refresh EXCEPT ![i] =
                     IF ok
                     THEN [pc |-> "lock",
                           members |-> GetActiveServices(registry, now, srConfig[i].ttl),
                           todo |-> {}]
                     ELSE NoRefresh]
    /\ UNCHANGED <<now, regVars, timeVars, guState, ring, chMux, tick, scan, cacheVars, svcVars,
                   histVars>>

\* chMux.Lock(), the comparison with Members() and, when the sets differ,
\* gu.consistentHash = consistent.New()
RefreshLock(i) ==
    /\ refresh[i].pc = "lock"
    /\ chMux[i] = Unlocked
    /\ chMux' = [chMux EXCEPT ![i].writer = TRUE]
    /\ IF ~areStringSlicesEqual(refresh[i].members, RingMembers(ring[i]))
       THEN /\ ring' = [ring EXCEPT ![i] = RingNew]
            /\ refresh' = [refresh EXCEPT
                             ![i].pc = IF refresh[i].members = {} THEN "unlock" ELSE "add",
                             ![i].todo = refresh[i].members]
       ELSE /\ refresh' = [refresh EXCEPT ![i].pc = "unlock"]
            /\ UNCHANGED ring
    /\ UNCHANGED <<now, regVars, timeVars, guState, tick, scan, cacheVars, svcVars, histVars>>

\* one gu.consistentHash.Add(member) of the rebuild loop
RefreshAdd(i, member) ==
    /\ refresh[i].pc = "add"
    /\ member \in refresh[i].todo
    /\ ring' = [ring EXCEPT ![i] = RingAdd(ring[i], member)]
    /\ refresh' = [refresh EXCEPT
                     ![i].pc = IF refresh[i].todo = {member} THEN "unlock" ELSE "add",
                     ![i].todo = refresh[i].todo \ {member}]
    /\ UNCHANGED <<now, regVars, timeVars, guState, chMux, tick, scan, cacheVars, svcVars, histVars>>

\* the deferred chMux.Unlock()
RefreshUnlock(i) ==
    /\ refresh[i].pc = "unlock"
    /\ chMux' = [chMux EXCEPT ![i].writer = FALSE]
    /\ refresh' = [refresh EXCEPT ![i] = NoRefresh]
    /\ UNCHANGED <<now, regVars, timeVars, guState, ring, tick, scan, cacheVars, svcVars, histVars>>

\* performGameTick up to the capacity estimate: GetAllOnlineUUIDs; a failed
\* scan and an empty result return
TickScan(i, ok, max) ==
    /\ guState[i] = "running"
    /\ tick[i].pc = "idle"
    /\ BelowCap(max)
    /\ tick' = [tick EXCEPT ![i] =
                  IF ok /\ online # {}
                  THEN [pc |-> "cap", uuids |-> online, todo |-> {}]
                  ELSE NoTick]
    /\ UNCHANGED <<now, regVars, timeVars, guState, ring, chMux, refresh, scan, cacheVars, svcVars,
                   histVars>>

\* len(onlineUUIDs)/len(gu.consistentHash.Members()), evaluated before
\* chMux.RLock(): with no member it divides by zero and the panic ends the
\* process
TickCapacity(i) ==
    /\ tick[i].pc = "cap"
    /\ IF RingMembers(ring[i]) = {}
       THEN /\ ProcessDies(i)
            /\ UNCHANGED <<registry, srConfig, reqConfig>>
       ELSE /\ tick' = [tick EXCEPT ![i].pc = "rlock"]
            /\ UNCHANGED <<regVars, guState, ring, chMux, refresh, scan>>
    /\ UNCHANGED <<now, timeVars, cacheVars, svcVars, histVars>>

\* chMux.RLock(), the check for an empty ring and the selection of
\* playersToUpdate; with nobody to update the tick returns and unlocks
TickRLock_AllPlayers(i) ==
    /\ tick[i].pc = "rlock"
    /\ ~chMux[i].writer
    /\ LET todo == PlayersToUpdate(i, Players)
       IN  IF todo = {}
           THEN tick' = [tick EXCEPT ![i] = NoTick] /\ UNCHANGED chMux
           ELSE /\ tick' = [tick EXCEPT ![i].pc = "incr", ![i].todo = todo]
                /\ chMux' = [chMux EXCEPT ![i].readers = 1]
    /\ UNCHANGED <<now, regVars, timeVars, guState, ring, refresh, scan, cacheVars, svcVars,
                   histVars>>

TickRLock(i) ==
    /\ tick[i].pc = "rlock"
    /\ ~chMux[i].writer
    /\ LET todo == PlayersToUpdate(i, tick[i].uuids)
       IN  IF todo = {}
           THEN tick' = [tick EXCEPT ![i] = NoTick] /\ UNCHANGED chMux
           ELSE /\ tick' = [tick EXCEPT ![i].pc = "incr", ![i].todo = todo]
                /\ chMux' = [chMux EXCEPT ![i].readers = 1]
    /\ UNCHANGED <<now, regVars, timeVars, guState, ring, refresh, scan, cacheVars, svcVars,
                   histVars>>

\* one IncrementPlayerPlaytime(uuid) of the accrual loop, whose error is logged
TickIncrement_Abort(i, p, out) ==
    /\ tick[i].pc = "incr"
    /\ p \in tick[i].todo
    /\ Accrue({p}, [q \in Players |-> out])
    /\ CountTick({p}, [q \in Players |-> out])
    /\ IF out = "ok"
       THEN tick' = [tick EXCEPT ![i].todo = tick[i].todo \ {p}] /\ UNCHANGED chMux
       ELSE tick' = [tick EXCEPT ![i] = NoTick] /\ chMux' = [chMux EXCEPT ![i].readers = 0]
    /\ UNCHANGED <<now, regVars, timeVars, guState, ring, refresh, scan, online, deltatime,
                   teamKey, svcVars>>

TickIncrement(i, p, out) ==
    /\ tick[i].pc = "incr"
    /\ p \in tick[i].todo
    /\ Accrue({p}, [q \in Players |-> out])
    /\ CountTick({p}, [q \in Players |-> out])
    /\ tick' = [tick EXCEPT ![i].todo = tick[i].todo \ {p}]
    /\ UNCHANGED <<now, regVars, timeVars, guState, ring, chMux, refresh, scan, online, deltatime,
                   teamKey, svcVars>>

\* the end of the accrual loop and the deferred chMux.RUnlock()
TickReturn(i) ==
    /\ tick[i].pc = "incr"
    /\ tick[i].todo = {}
    /\ tick' = [tick EXCEPT ![i] = NoTick]
    /\ chMux' = [chMux EXCEPT ![i].readers = 0]
    /\ UNCHANGED <<now, regVars, timeVars, guState, ring, refresh, scan, cacheVars, svcVars,
                   histVars>>

\* the instance whose updater is followed step by step
Stepped == {"i1"}

\* Both instances are registered; i1 is about to start its updater.  Both
\* players are marked online, and p1's marker may expire.  p2's session keys
\* are loaded; p1's delta key and team key are each present or missing, as
\* overlapping or failed handler calls leave them.  An accrual call succeeds
\* or fails as a whole here: the outcomes in which the pipeline applies one
\* of its two increments are followed in the handler specification.
InitTick ==
    /\ now = 0
    /\ registry = [id \in Keys |-> IF id \in Inst THEN InfoJSON(0) ELSE Absent]
    /\ srState = [i \in Inst |-> "running"]
    /\ srConfig = [i \in Inst |-> WithDefaults(MainServiceConfig)]
    /\ reqConfig = [i \in Inst |-> MainServiceConfig]
    /\ clSnap = [i \in Inst |-> {}]
    /\ hbDue = [i \in Inst |-> 0]
    /\ clDue = [i \in Inst |-> 0]
    /\ chDue = [i \in Inst |-> 0]
    /\ guState = [i \in Inst |-> "none"]
    /\ ring = [i \in Inst |-> RingNew]
    /\ chMux = [i \in Inst |-> Unlocked]
    /\ refresh = [i \in Inst |-> NoRefresh]
    /\ tick = [i \in Inst |-> NoTick]
    /\ scan = NoScan
    /\ profile = [p \in Players |-> NewProfile(p)]
    /\ online = Players
    /\ playtime = [p \in Players |-> Val(0)]
    /\ \E d \in {Missing, Val(1)} :
          deltatime = [p \in Players |-> IF p = "p1" THEN d ELSE Val(1)]
    /\ \E t \in {"", AvailableTeam("p1")} :
          teamKey = [p \in Players |-> IF p = "p1" THEN t ELSE AvailableTeam(p)]
    /\ teamTotal = [t \in Teams |-> 0]
    /\ durTeam = [t \in Teams |-> 0]
    /\ req = [r \in Slots |-> Idle]
    /\ syncer = [i \in Inst |-> SyncIdle]
    /\ base = [p \in Players |-> 0]
    /\ nticks = [p \in Players |-> 0]
    /\ lost = [p \in Players |-> FALSE]
    /\ stopLog = [i \in Inst |-> [hdel |-> 0, again |-> 0]]

NextTick ==
    \/ \E i \in Stepped : Start(i)
    \/ \E i \in Inst, ok \in BOOLEAN : heartbeatLoop(i, ok)
    \/ \E i \in Inst \ Stepped, ok \in BOOLEAN : cleanupRead(i, ok)
    \/ \E i \in Inst \ Stepped, ok \in BOOLEAN : cleanupDelete(i, ok)
    \/ \E i \in Stepped, ok \in BOOLEAN : RefreshRead(i, ok)
    \/ \E i \in Stepped : RefreshLock(i)
    \/ \E i \in Stepped, member \in Inst : RefreshAdd(i, member)
    \/ \E i \in Stepped : RefreshUnlock(i)
    \/ \E i \in Stepped, ok \in BOOLEAN : TickScan(i, ok, MaxPlaytime)
    \/ \E i \in Stepped : TickCapacity(i)
    \/ \E i \in Stepped : TickRLock(i)
    \/ \E i \in Stepped, p \in Players, out \in Outcomes \ {"teamfail", "playerfail"} :
          TickIncrement(i, p, out)
    \/ \E i \in Stepped : TickReturn(i)
    \/ \E p \in Callers : ExpireOnline(p)
    \/ AdvanceTime((DefaultServiceTimeout + 1) \div 2, MaxTimeRing)

SpecTick == InitTick /\ [][NextTick]_vars

-----------------------------------------------------------------------------
(* Failures inside the tick loop *)

\* C21 as stated: a tick of an instance whose ring is empty while players
\* are online changes no player or team counter and leaves the tick loop of
\* the instance running.
C21_EmptyRingTickSkipped ==
    [][\A i \in Inst :
          (/\ RingMembers(ring[i]) = {}
           /\ online # {}
           /\ performGameTick(i, TRUE, AllOk))
              => /\ cacheVars' = cacheVars
                 /\ guState'[i] = "running"
                 /\ srState'[i] = srState[i]
      ]_vars

\* the ring of instance i is a new one to which the rebuild loop has not yet
\* added every member of the snapshot
Rebuilding(i) == refresh[i].pc = "add"

\* C22 as stated: every step in which a tick reads the ring is taken with the
\* read lock available, that is with no rebuild of the ring in flight: a tick
\* never reads a new ring that still lacks members of the snapshot.
C22_TickSeesCompleteRing ==
    [][\A i \in Inst :
          (TickCapacity(i) \/ TickRLock(i))
              => /\ ~chMux[i].writer
                 /\ ~Rebuilding(i)
      ]_vars

\* C23: a ring refresh whose GetActiveServices read succeeded ends with the
\* ring holding exactly the ids of that snapshot: when the snapshot equals the
\* ring's members the ring is left as it is, otherwise the ring is replaced by
\* a new empty one and every id of the snapshot is added to it before the lock
\* is released.  A refresh whose read failed ends at once, the ring unchanged.
C23_RefreshMatchesSnapshot ==
    [][\A i \in Inst :
          /\ RefreshRead(i, FALSE) => ring' = ring /\ refresh'[i] = NoRefresh
          /\ RefreshRead(i, TRUE)
               => /\ ring' = ring
                  /\ refresh'[i].members = GetActiveServices(registry, now, srConfig[i].ttl)
          /\ RefreshLock(i)
               => /\ refresh'[i].members = refresh[i].members
                  /\ IF RingMembers(ring[i]) = refresh[i].members
                     THEN ring'[i] = ring[i]
                     ELSE ring'[i] = RingNew
          /\ RefreshAdd(i, "i1") \/ RefreshAdd(i, "i2")
               => refresh'[i].members = refresh[i].members
          /\ RefreshUnlock(i)
               => /\ ring'[i] = ring[i]
                  /\ RingMembers(ring[i]) = refresh[i].members
      ]_vars

\* i1, whose own entry is no longer within the TTL, has rebuilt its ring from
\* the snapshot {i2} and is about to release the lock
C23_Witness ==
    /\ refresh["i1"].pc = "unlock"
    /\ refresh["i1"].members = {"i2"}
    /\ RingMembers(ring["i1"]) = {"i2"}
    /\ chMux["i1"].writer

\* C24: an IncrementPlayerPlaytime call for a selected player whose delta key
\* is missing changes no player total and no team total, whatever the store
\* does, and counts as no failed accrual; the accrual loop goes on with the
\* other selected players.
C24_MissingDeltaZeroAccrual ==
    [][\A i \in Inst, p \in Players, out \in Outcomes :
          (TickIncrement(i, p, out) /\ ~deltatime[p].has)
              => /\ playtime' = playtime
                 /\ teamTotal' = teamTotal
                 /\ lost' = lost
                 /\ guState'[i] = "running"
                 /\ tick'[i].pc = "incr"
                 /\ tick'[i].todo = tick[i].todo \ {p}
      ]_vars

\* p1 has a team key and no delta key: the tick of i1 that selected both
\* players under the ring {i1} has called IncrementPlayerPlaytime for both,
\* has left p1's counters alone and has accrued to p2
C24_Witness ==
    /\ ~deltatime["p1"].has
    /\ teamKey["p1"] = AvailableTeam("p1")
    /\ RingMembers(ring["i1"]) = {"i1"}
    /\ tick["i1"].pc = "incr"
    /\ tick["i1"].uuids = Players
    /\ tick["i1"].todo = {}
    /\ nticks["p2"] = 1
    /\ playtime["p2"] = Val(1)
    /\ teamTotal[AvailableTeam("p2")] = 1
    /\ playtime["p1"] = Val(0)
    /\ teamTotal[AvailableTeam("p1")] = 0
    /\ ~lost["p1"]

\* C25: an IncrementPlayerPlaytime call for a selected player whose team key
\* is missing changes no player total and no team total, also when the
\* player's delta key is present; the accrual loop goes on.
C25_MissingTeamSkipped ==
    [][\A i \in Inst, p \in Players, out \in Outcomes :
          (TickIncrement(i, p, out) /\ teamKey[p] = "")
              => /\ playtime' = playtime
                 /\ teamTotal' = teamTotal
                 /\ tick'[i].pc = "incr"
                 /\ tick'[i].todo = tick[i].todo \ {p}
      ]_vars

\* p1 has its delta key and no team key: the tick that selected both players
\* has left every counter of p1 and every team total but p2's alone
C25_Witness ==
    /\ deltatime["p1"] = Val(1)
    /\ teamKey["p1"] = ""
    /\ RingMembers(ring["i1"]) = {"i1"}
    /\ tick["i1"].pc = "incr"
    /\ tick["i1"].uuids = Players
    /\ tick["i1"].todo = {}
    /\ nticks["p2"] = 1
    /\ playtime["p2"] = Val(1)
    /\ teamTotal[AvailableTeam("p2")] = 1
    /\ playtime["p1"] = Val(0)
    /\ teamTotal[AvailableTeam("p1")] = 0

-----------------------------------------------------------------------------
(* The cached delta during a session *)

-----------------------------------------------------------------------------
(* The registry under failing heartbeats and cleanup *)

\* C27: a heartbeat whose write fails changes nothing: the registry is as it
\* was and the registrar and its loops are as they were, so the loop fires
\* again.  A heartbeat whose write succeeds puts the instance's entry, under
\* the instance's own id and stamped with the current time, into the registry,
\* whether the entry was there, stale or deleted by a peer before; every
\* running instance then gets the id from GetActiveServices.
C27_FailedHeartbeatNotFatal ==
    [][\A i \in Inst :
          /\ heartbeatLoop(i, FALSE)
               => /\ registry' = registry
                  /\ srState' = srState
                  /\ srState'[i] = "running"
          /\ heartbeatLoop(i, TRUE)
               => /\ registry'[i] = InfoJSON(now)
                  /\ \A k \in Keys \ {i} : registry'[k] = registry[k]
                  /\ srState'[i] = "running"
                  /\ \A j \in Inst : srState[j] = "running"
                        => i \in GetActiveServices(registry', now', srConfig[j].ttl)
      ]_vars

\* i1 is running, its heartbeats have failed for longer than the TTL and the
\* cleanup of the running i2 has deleted i1's entry
C27_Witness ==
    /\ srState["i1"] = "running"
    /\ registry["i1"] = Absent
    /\ srState["i2"] = "running"
    /\ now > DefaultServiceTimeout
    /\ "i2" \in GetActiveServices(registry, now, srConfig["i2"].ttl)
    /\ "i1" \notin GetActiveServices(registry, now, srConfig["i2"].ttl)

\* C28: the HGetAll step of a cleanup pass selects exactly the entries of its
\* snapshot that do not unmarshal or whose lastSeen is more than the TTL before
\* the time of the pass, and the HDel step of the pass, when it succeeds,
\* removes exactly the selected entries and changes no other.  An entry that is
\* exactly TTL old is not selected and is returned by GetActiveServices.
C28_CleanupRemovesExactlyStale ==
    [][\A i \in Inst :
          /\ cleanupRead(i, TRUE)
               => /\ clSnap'[i] =
                        {id \in Keys :
                            \/ registry[id].kind = "garbage"
                            \/ /\ registry[id].kind = "json"
                               /\ now - registry[id].lastSeen > srConfig[i].ttl}
                  /\ \A id \in Keys :
                        (registry[id].kind = "json"
                            /\ now - registry[id].lastSeen = srConfig[i].ttl)
                          => /\ id \notin clSnap'[i]
                             /\ id \in GetActiveServices(registry, now, srConfig[i].ttl)
                  /\ registry' = registry
          /\ cleanupDelete(i, TRUE)
               => \A id \in Keys :
                     registry'[id] = IF id \in clSnap[i] THEN Absent ELSE registry[id]
      ]_vars

\* the cleanup pass of i2 has selected the unreadable entry and not the entry
\* of i1, which is exactly TTL old and which GetActiveServices returns
C28_Witness ==
    /\ srState["i2"] = "running"
    /\ clSnap["i2"] = {Junk}
    /\ registry[Junk] = Garbage
    /\ registry["i1"] = InfoJSON(now - DefaultServiceTimeout)
    /\ "i1" \in GetActiveServices(registry, now, srConfig["i2"].ttl)

\* C29: every step that creates or modifies a registry field is a heartbeat
\* (of Register or of the heartbeat loop) of the instance whose id is the
\* field's key, and it writes that instance's entry stamped with the current
\* time; a heartbeat changes no other field.  Every other step, among them the
\* cleanup pass, GetActiveServices and the ring refresh of a peer, leaves a
\* field as it is or deletes it.
C29_EntryWrittenByOwnerOnly ==
    [][/\ \A k \in Keys :
            (registry'[k] # registry[k] /\ registry'[k] # Absent)
                => /\ k \in Inst
                   /\ heartbeatLoop(k, TRUE) \/ Register(k, TRUE)
                   /\ registry'[k] = InfoJSON(now)
       /\ \A i \in Inst :
            heartbeatLoop(i, TRUE) => \A k \in Keys \ {i} : registry'[k] = registry[k]
       /\ \A i \in Inst, ok \in BOOLEAN :
            (cleanupRead(i, ok) \/ RefreshRead(i, ok) \/ RefreshLock(i) \/ RefreshUnlock(i))
                => registry' = registry
      ]_vars

\* the cleanup of i2 has deleted the entry of the running i1, and i1's ring
\* refresh has read the snapshot without it
C29_Witness ==
    /\ srState["i1"] = "running"
    /\ registry["i1"] = Absent
    /\ registry["i2"].kind = "json"
    /\ refresh["i1"].pc = "lock"
    /\ refresh["i1"].members = {"i2"}

-----------------------------------------------------------------------------
(* Failures of one tick *)

\* C30: a tick whose GetAllOnlineUUIDs fails changes no counter and leaves
\* the tick loop waiting for its next firing.  An IncrementPlayerPlaytime call
\* that fails leaves the updater running and the accrual loop in place with
\* the remaining selected players, none of whose totals it touches; the loop
\* ends only when every selected player has been called; and a later call of
\* the same tick that succeeds for a player with team and delta keys adds the
\* delta to the player's total and to the team's total.
C30_TickFailureNotPropagated ==
    [][\A i \in Inst :
          /\ TickScan(i, FALSE, MaxPlaytime)
               => /\ cacheVars' = cacheVars
                  /\ guState'[i] = "running"
                  /\ tick'[i] = NoTick
          /\ \A p \in Players, out \in Outcomes \ {"ok"} :
                TickIncrement(i, p, out)
                  => /\ guState'[i] = "running"
                     /\ tick'[i].pc = "incr"
                     /\ tick'[i].todo = tick[i].todo \ {p}
                     /\ \A q \in Players \ {p} : playtime'[q] = playtime[q]
          /\ (tick[i].pc = "incr" /\ tick'[i].pc # "incr" /\ guState'[i] = "running")
               => tick[i].todo = {}
          /\ \A q \in Players :
                (TickIncrement(i, q, "ok") /\ teamKey[q] # "" /\ deltatime[q].has)
                  => /\ playtime'[q] = Val(playtime[q].val + deltatime[q].val)
                     /\ teamTotal'[teamKey[q]] = teamTotal[teamKey[q]] + deltatime[q].val
      ]_vars

\* in one tick of i1 under the ring {i1} the accrual of p1 has failed with
\* nothing added, and p2 has been accrued
C30_Witness ==
    /\ RingMembers(ring["i1"]) = {"i1"}
    /\ tick["i1"].pc = "incr"
    /\ tick["i1"].uuids = Players
    /\ tick["i1"].todo = {}
    /\ lost["p1"]
    /\ nticks["p1"] = 0
    /\ playtime["p1"] = Val(0)
    /\ nticks["p2"] = 1
    /\ playtime["p2"] = Val(1)


(* Failures of one sync cycle *)

\* C31: a sync cycle whose request to the player service fails, or is
\* answered without a team total, writes nothing to the cache and leaves the
\* syncer ready for its next cycle; no step of the request changes a cached
\* total; and a SetTeamTotal that fails takes only its own team off the
\* teams still to be set, so every other team of the answer is still set
\* before the cycle returns.
C31_FailedSyncWritesNothing ==
    /\ [](\A i \in Inst : syncer[i].pc = "set" => syncer[i].todo \subseteq syncer[i].resp)
    /\ [][\A i \in Inst :
            /\ (syncer[i].pc # "set"
                   /\ (syncer'[i].pc # syncer[i].pc \/ syncer'[i].todo # syncer[i].todo))
                 => teamTotal' = teamTotal
            /\ (syncer[i].pc = "respond" /\ syncer'[i].pc = "idle")
                 => syncer'[i] = SyncIdle
            /\ (syncer[i].pc = "respond" /\ syncer'[i].pc = "set")
                 => syncer'[i].todo = syncer[i].resp
            /\ (syncer[i].pc = "set" /\ syncer'[i].pc = "idle")
                 => (syncer[i].todo = {} /\ syncer'[i] = SyncIdle /\ teamTotal' = teamTotal)
            /\ \A t \in Teams :
                  (syncer[i].pc = "set" /\ t \in syncer[i].todo \ syncer'[i].todo)
                     => /\ syncer'[i].pc = "set"
                        /\ syncer'[i].todo = syncer[i].todo \ {t}
                        /\ \A u \in Teams \ {t} : teamTotal'[u] = teamTotal[u]
                        /\ \/ teamTotal'[t] = syncer[i].calc[t]
                           \/ teamTotal' = teamTotal /\ syncer'[i].failed
         ]_vars

\* i1's cycle, undisturbed, was answered with the totals of both teams; its
\* SetTeamTotal for PURPLE_SWORDERS failed and left the cached 12, and
\* AQUA_CREEPERS was still set to its sum over the cached 12
C31_Witness ==
    /\ syncer["i1"].pc = "set"
    /\ syncer["i1"].alone
    /\ syncer["i1"].resp = Teams
    /\ syncer["i1"].todo = {}
    /\ syncer["i1"].failed
    /\ syncer["i1"].prev = 12
    /\ teamTotal["PURPLE_SWORDERS"] = 12
    /\ teamTotal["PURPLE_SWORDERS"] # syncer["i1"].calc["PURPLE_SWORDERS"]
    /\ teamTotal["AQUA_CREEPERS"] = syncer["i1"].calc["AQUA_CREEPERS"]


(* A session whose online marker expired *)

\* C32: the expiry of a player's online marker, and every step of a
\* background loop while the marker is gone, leave the player's cached total,
\* delta and team and the player's durable record as they are; the total
\* reaches the durable record only through a mark-offline call, which reads
\* the cached values whether or not the marker is present and writes the
\* total it read; and a mark-online call that finds both session keys goes
\* straight to setting the marker, without reading the durable record and
\* without writing a session key.
C32_ExpiredSessionKept ==
    [][\A p \in Players :
          /\ (req' = req /\ p \notin online')
               => /\ playtime'[p] = playtime[p]
                  /\ deltatime'[p] = deltatime[p]
                  /\ teamKey'[p] = teamKey[p]
                  /\ profile'[p] = profile[p]
          /\ profile'[p] # profile[p]
               => \E r \in Slots :
                     /\ At(r, "offline", "persist")
                     /\ req[r].player = p
                     /\ profile'[p].total \in {profile[p].total, req[r].total}
          /\ \A r \in Slots :
                /\ (req[r] = Idle /\ req'[r].op = "offline" /\ req'[r].player = p)
                     => (req'[r].total = playtime[p].val /\ req'[r].delta = deltatime[p].val)
                /\ (req[r] = Idle /\ req'[r].op = "online" /\ req'[r].player = p
                       /\ playtime[p].has /\ deltatime[p].has)
                     => req'[r].pc = "mark"
                /\ (At(r, "online", "mark") /\ req'[r] = Idle)
                     => (playtime' = playtime /\ deltatime' = deltatime /\ teamKey' = teamKey)
      ]_vars

\* p1's marker is gone while the session keys hold a total of 4 that two
\* ticks accrued; a mark-offline call has since written the 4 to the durable
\* record and is about to delete the session keys
C32_Witness ==
    /\ "p1" \notin online
    /\ playtime["p1"] = Val(4)
    /\ deltatime["p1"] = Val(2)
    /\ nticks["p1"] = 2
    /\ At("r1", "offline", "remove")
    /\ req["r1"].player = "p1"
    /\ profile["p1"].total = 4
    /\ req["r2"] = Idle


(* The durable total across flushes *)

\* C33 as stated: whatever the interleaving of ticks, mark-online calls and
\* mark-offline calls for a player, no step lowers the total of the player's
\* durable record: a value that mark-offline writes is at least the total it
\* replaces.
C33_DurableTotalNeverDecreases ==
    [][\A p \in Players : profile'[p].total >= profile[p].total]_vars


(* A heartbeat between the two halves of a cleanup pass *)

\* C34 as stated: an entry that the HDel of a cleanup pass removes is stale
\* or unreadable at the moment of the removal, so a heartbeat written between
\* the pass's read and its delete keeps the entry in the registry.
C34_CleanupRemovesOnlyStale ==
    [][\A i \in Inst, id \in Keys :
          (/\ clSnap[i] # {} /\ clSnap'[i] = {}
           /\ id \in clSnap[i]
           /\ registry[id] # Absent /\ registry'[id] = Absent)
              => \/ ~Unmarshals(registry[id])
                 \/ IsStale(now, registry[id].lastSeen, srConfig[i].ttl)
      ]_vars


-----------------------------------------------------------------------------
(* Timed specification of the ring refresh: next to the heartbeat and        *)
(* cleanup tickers of the registrars, every started GameUpdater refreshes    *)
(* its ring at the firings of its own ticker; the store is available and     *)
(* instances crash.                                                          *)

\* checkInterval of updateConsistentHashLoop
checkInterval(i) == IF srConfig[i].hb = 0 THEN 10 ELSE srConfig[i].hb * 2

\* go gameUpdater.Start() in main, which starts the ring-refresh ticker
StartT(i) ==
    /\ now <= MaxRegTime
    /\ StartCore(i)
    /\ chDue' = [chDue EXCEPT ![i] = now + checkInterval(i)]
    /\ UNCHANGED <<hbDue, clDue>>

\* updateConsistentHashLoop at a firing of its ticker
updateRingT(i) ==
    /\ chDue[i] = now
    /\ updateRingCore(i, TRUE)
    /\ chDue' = [chDue EXCEPT ![i] = now + checkInterval(i)]
    /\ UNCHANGED <<hbDue, clDue>>

NextHeal ==
    \/ \E i \in Inst : NewServiceRegistrar(i, MainServiceConfig)
    \/ \E i \in Inst : RegisterT(i)
    \/ \E i \in Inst : StartT(i)
    \/ \E i \in Inst : heartbeatT(i)
    \/ \E i \in Inst : updateRingT(i)
    \/ \E i \in Inst : cleanupReadT(i)
    \/ \E i \in Inst : cleanupDelete(i, TRUE)
    \/ \E i \in Inst : CrashT(i)
    \/ AdvanceTimeT

SpecHeal ==
    /\ InitRing
    /\ [][NextHeal]_vars
    /\ WF_vars(AdvanceTimeT)
    /\ \A i \in Inst : WF_vars(heartbeatT(i))
    /\ \A i \in Inst : WF_vars(updateRingT(i))
    /\ \A i \in Inst : WF_vars(cleanupReadT(i))
    /\ \A i \in Inst : WF_vars(cleanupDelete(i, TRUE))

\* C35: once a crashed instance's last heartbeat is more than the TTL plus
\* one ring-refresh interval old, no surviving instance's ring holds it, and
\* every online player is selected by exactly one surviving instance; and a
\* crash is always followed by a state in which no surviving ring holds the
\* crashed instance.
C35_RingHealsAfterCrash ==
    /\ [](\A i \in Inst :
            (srState[i] = "crashed"
                /\ now - (hbDue[i] - srConfig[i].hb)
                      > DefaultServiceTimeout + checkInterval(i)
                /\ Alive # {})
              => /\ \A j \in Alive : i \notin RingMembers(ring[j])
                 /\ \A p \in online : Cardinality(OwnersOf(p)) = 1)
    /\ \A i \in Inst :
          (srState[i] = "crashed") ~> (\A j \in Alive : i \notin RingMembers(ring[j]))

\* i1 crashed after its heartbeat at time 5 and its entry is still in the
\* registry 26 s later; i2, whose refreshes at 11 and 21 are past, has the
\* ring of itself alone and selects both players
C35_Witness ==
    /\ srState["i1"] = "crashed"
    /\ hbDue["i1"] = 10
    /\ registry["i1"] = InfoJSON(5)
    /\ now = 31
    /\ chDue["i2"] = 31
    /\ Alive = {"i2"}
    /\ RingMembers(ring["i2"]) = {"i2"}
    /\ OwnersOf("p1") = {"i2"}
    /\ OwnersOf("p2") = {"i2"}


\* C36: Start leaves the ring with the instance's own id alone, and until
\* the first firing of the refresh ticker has been handled the ring holds
\* exactly that id, whoever else is registered; afterwards the ring's member
\* set changes only in a refresh, to what GetActiveServices returned.  (The
\* ring of a process that died is gone with it.)
C36_RingIsSelfUntilRefresh ==
    /\ [](\A i \in Inst :
            (guState[i] = "running" /\ chDue[i] - checkInterval(i) <= MaxRegTime)
                => RingMembers(ring[i]) = {i})
    /\ [][\A i \in Inst :
            RingMembers(ring'[i]) # RingMembers(ring[i])
                => \/ /\ guState[i] = "none" /\ guState'[i] = "running"
                      /\ RingMembers(ring'[i]) = {i}
                   \/ /\ guState[i] = "running" /\ guState'[i] = "running"
                      /\ chDue[i] = now /\ chDue'[i] = now + checkInterval(i)
                      /\ RingMembers(ring'[i])
                            = GetActiveServices(registry, now, srConfig[i].ttl)
                   \/ srState'[i] = "crashed"
         ]_vars

\* i1 started at time 0 and its first refresh, due at 10, has not run; i2
\* registered and has just written a heartbeat; i1's ring holds i1 alone
C36_Witness ==
    /\ guState["i1"] = "running"
    /\ chDue["i1"] = 10
    /\ now = 7
    /\ srState["i2"] = "running"
    /\ registry["i2"] = InfoJSON(7)
    /\ guState["i2"] = "running"
    /\ RingMembers(ring["i1"]) = {"i1"}
    /\ RingMembers(ring["i2"]) = {"i2"}


(* The enumeration of a tick *)

\* C37: the uuids a tick works on are the online markers present when its
\* enumeration ran, and they stay the tick's uuids to its end; the players it
\* selects are among them; and a cached total or a team total changes only
\* in an accrual call of a tick for a player of that tick's enumeration, the
\* team total being that of the player's team.  A player whose marker was
\* gone when the enumeration ran gets nothing from the tick.
C37_TickIncrementsEnumeratedOnly ==
    /\ [](\A i \in Inst : tick[i].todo \subseteq tick[i].uuids)
    /\ [][/\ \A i \in Inst :
               /\ (tick[i].pc = "idle" /\ tick'[i].pc # "idle") => tick'[i].uuids = online
               /\ (tick[i].pc # "idle" /\ tick'[i].pc # "idle")
                    => tick'[i].uuids = tick[i].uuids
          /\ \A p \in Players :
               playtime'[p] # playtime[p]
                  => \E i \in Inst :
                        /\ tick[i].pc = "incr"
                        /\ p \in tick[i].uuids
                        /\ p \in tick[i].todo \ tick'[i].todo
          /\ \A t \in Teams :
               teamTotal'[t] # teamTotal[t]
                  => \E i \in Inst, p \in Players :
                        /\ tick[i].pc = "incr"
                        /\ p \in tick[i].uuids
                        /\ p \in tick[i].todo \ tick'[i].todo
                        /\ teamKey[p] = t
         ]_vars

\* p1's marker expired before the enumeration of i1's tick while p1's session
\* keys are all present and i1, alone on its ring, is responsible for both
\* players: the tick enumerated p2 alone, accrued to p2 and left p1's total
C37_Witness ==
    /\ "p1" \notin online
    /\ deltatime["p1"] = Val(1)
    /\ teamKey["p1"] = AvailableTeam("p1")
    /\ RingMembers(ring["i1"]) = {"i1"}
    /\ tick["i1"] = [pc |-> "incr", uuids |-> {"p2"}, todo |-> {}]
    /\ playtime["p1"] = Val(0)
    /\ playtime["p2"] = Val(1)
    /\ teamTotal = [t \in Teams |-> IF t = AvailableTeam("p2") THEN 1 ELSE 0]


-----------------------------------------------------------------------------
(* Specification of mark-offline under a failing read: both players are      *)
(* online with their session keys as the tick specification starts with      *)
(* them, i1 ticks alone, and mark-offline calls for either player run in     *)
(* both request slots, their first store call failing or not.                *)

NextOffline ==
    \/ \E i \in Stepped : Start(i)
    \/ \E i \in Stepped, ok \in BOOLEAN : tickLoop(i, ok, AllOk, MaxPlaytime)
    \/ \E r \in Slots, p \in Players : HandleOfflineRead(r, p)
    \/ \E r \in Slots, p \in Players : HandleOfflineReadFails(r, p)
    \/ \E r \in Slots : HandleOfflineWriteError(r)
    \/ \E r \in Slots, okTotal \in BOOLEAN, okDelta \in BOOLEAN :
          HandleOfflinePersist(r, okTotal, okDelta)
    \/ \E r \in Slots, ok \in BOOLEAN : HandleOfflineRemove(r, ok)
    \/ \E r \in Slots, ok \in BOOLEAN : HandleOfflineSetOffline(r, ok)

SpecOffline == InitTick /\ [][NextOffline]_vars

-----------------------------------------------------------------------------
(* GetAllOnlineUUIDs of go/game/redis.go, step by step.  ForEachMaster runs  *)
(* the callback for every master shard in a goroutine of its own and waits   *)
(* for all of them; each callback iterates over the online:* keys of its     *)
(* shard and appends every uuid to the slice allOnlineUUIDs, which all       *)
(* callbacks share without a lock.  The append is a read of the slice        *)
(* followed by a write of the extended slice.  The store is available, and   *)
(* markers expire while the scan runs.                                       *)

\* GetAllOnlineUUIDs is called and ForEachMaster starts the callbacks
ScanBegin ==
    /\ scan.pc \in {"idle", "returned"}
    /\ scan' = [pc |-> "scanning", begin |-> online, res |-> <<>>,
                cb |-> [s \in Shards |->
                          [pc |-> "iter", seen |-> {}, key |-> "", old |-> <<>>]]]
    /\ UNCHANGED <<now, regVars, timeVars, guState, ring, chMux, refresh, tick, cacheVars,
                   svcVars, histVars>>

\* iter.Next(ctx) of the callback of shard s: the next marker present on the
\* shard, or the end of the iteration and of the callback
CallbackNext(s) ==
    /\ scan.pc = "scanning"
    /\ scan.cb[s].pc = "iter"
    /\ LET rest == (KeysOn(s) \cap online) \ scan.cb[s].seen
       IN  IF rest = {}
           THEN scan' = [scan EXCEPT !.cb[s].pc = "done"]
           ELSE \E p \in rest :
                   scan' = [scan EXCEPT !.cb[s].pc = "load", !.cb[s].key = p,
                                        !.cb[s].seen = @ \cup {p}]
    /\ UNCHANGED <<now, regVars, timeVars, guState, ring, chMux, refresh, tick, cacheVars,
                   svcVars, histVars>>

\* append(allOnlineUUIDs, uuid), first half: the shared slice is read
CallbackLoad(s) ==
    /\ scan.pc = "scanning"
    /\ scan.cb[s].pc = "load"
    /\ scan' = [scan EXCEPT !.cb[s].pc = "store", !.cb[s].old = scan.res]
    /\ UNCHANGED <<now, regVars, timeVars, guState, ring, chMux, refresh, tick, cacheVars,
                   svcVars, histVars>>

\* append(allOnlineUUIDs, uuid), second half: the extended slice is assigned
CallbackStore(s) ==
    /\ scan.pc = "scanning"
    /\ scan.cb[s].pc = "store"
    /\ scan' = [scan EXCEPT !.cb[s].pc = "iter",
                            !.res = Append(scan.cb[s].old, scan.cb[s].key)]
    /\ UNCHANGED <<now, regVars, timeVars, guState, ring, chMux, refresh, tick, cacheVars,
                   svcVars, histVars>>

\* every callback has returned: ForEachMaster and GetAllOnlineUUIDs return
ScanReturn ==
    /\ scan.pc = "scanning"
    /\ \A s \in Shards : scan.cb[s].pc = "done"
    /\ scan' = [scan EXCEPT !.pc = "returned"]
    /\ UNCHANGED <<now, regVars, timeVars, guState, ring, chMux, refresh, tick, cacheVars,
                   svcVars, histVars>>

NextScan ==
    \/ ScanBegin
    \/ \E s \in Shards : CallbackNext(s)
    \/ \E s \in Shards : CallbackLoad(s)
    \/ \E s \in Shards : CallbackStore(s)
    \/ ScanReturn
    \/ \E p \in Players : ExpireOnline(p)

SpecScan == InitTick /\ [][NextScan]_vars

\* C39 as stated: what GetAllOnlineUUIDs returns holds the uuid of every
\* online marker that was present from the start of the scan to its return,
\* however the callbacks of the shards interleave.
C39_ScanReturnsEveryMarker ==
    scan.pc = "returned"
        => \A p \in scan.begin \cap online :
              \E k \in 1..Len(scan.res) : scan.res[k] = p

-----------------------------------------------------------------------------
(***************************************************************************)
(* Stop called again on a stopped registrar                                *)
(***************************************************************************)

NextStopAgain ==
    \/ \E i \in Inst : NewServiceRegistrar(i, MainServiceConfig)
    \/ \E i \in Inst, ok \in BOOLEAN : Register(i, ok)
    \/ \E i \in Inst, ok \in BOOLEAN : heartbeatLoop(i, ok)
    \/ \E i \in Inst, ok \in BOOLEAN : cleanupRead(i, ok)
    \/ \E i \in Inst, ok \in BOOLEAN : cleanupDelete(i, ok)
    \/ \E i \in Inst : StopBegin(i)
    \/ \E i \in Inst, ok \in BOOLEAN : StopDeregister(i, ok)
    \/ \E i \in Inst : StopAgain(i)
    \/ AdvanceTime(1, MaxTimeStop)

SpecStopAgain == InitReg /\ [][NextStopAgain]_vars

\* C40: Stop is idempotent when called one call after the other.  A call made
\* after an earlier call has returned finds isStopped set and returns at once:
\* it changes neither the registry nor the registrar, starts no wait and
\* issues no HDel, whether or not the first call's HDel succeeded.  Over its
\* life a registrar issues the deregistration HDel at most once, and only a
\* registrar whose Stop has got past wg.Wait() has issued it.
C40_StopIdempotent ==
    /\ [](\A i \in Inst :
            /\ stopLog[i].hdel <= 1
            /\ stopLog[i].hdel = 1 <=> srState[i] = "stopped"
            /\ stopLog[i].again > 0 => srState[i] = "stopped")
    /\ [][\A i \in Inst :
            /\ stopLog'[i].again # stopLog[i].again
                 => /\ srState[i] = "stopped"
                    /\ stopLog'[i].hdel = stopLog[i].hdel
                    /\ UNCHANGED <<now, regVars, timeVars, guVars, cacheVars, svcVars>>
            /\ stopLog'[i].hdel # stopLog[i].hdel
                 => srState[i] = "stopping" /\ srState'[i] = "stopped"
      ]_vars

\* i1's first Stop failed to delete the entry; two later calls have returned
\* and the entry is still there, one HDel having been issued
C40_Witness ==
    /\ srState["i1"] = "stopped"
    /\ stopLog["i1"] = [hdel |-> 1, again |-> 2]
    /\ registry["i1"] # Absent

=============================================================================
